---- MODULE Spec2Model ----
(***************************************************************************)
(* Model of the crawl pipeline of realdoc's Python backend                 *)
(* (back/backend_python/utils/web_crawler.py and its callers).             *)
(*                                                                         *)
(*   SpecCrawl    one crawl_and_extract call: fetch_url_content with its   *)
(*                retry loop, the optional render_url_with_js fallback and *)
(*                extract_text_content.                                    *)
(*   SpecBatch    one crawl_competitors call: the semaphore-bounded        *)
(*                fan-out over the competitor URLs and asyncio.gather.     *)
(*   SpecDeadline one asyncio.wait_for(asyncio.gather(...), timeout) batch *)
(*                as used by generate_seo_report, generate_analytics_report*)
(*                and get_brand_visibility_data.                           *)
(*                                                                         *)
(* Further specifications are introduced where their definitions begin:    *)
(* SpecBackoff, SpecExtract, SpecEvidence, SpecSeoReport, SpecRanking,     *)
(* SpecKeywords, SpecGaps, SpecAnalytics, SpecCompetitors (web_crawler.py, *)
(* seo_helper.py, analytics_helper.py), SpecRateLimit and SpecCredits      *)
(* (utils/auth.py), SpecBrand (brand_visibility_helper.py),                *)
(* SpecRankingAnalysis and SpecVideo (routes/video_generation.py).         *)
(***************************************************************************)
EXTENDS Integers, Sequences, FiniteSets, TLC

VARIABLES
    \* ---- one crawl_and_extract call -------------------------------------
    call,           \* arguments: [max_retries, use_js_render]
    env,            \* os.environ: [CRAWLER_MAX_RETRIES, CRAWLER_ENABLE_JS_RENDER]
    playwright,     \* PLAYWRIGHT_AVAILABLE
    target,         \* what the remote site can answer: [statuses, excs]
    fpc,            \* position in fetch_url_content
    attempt,        \* loop variable of "for attempt in range(max_retries + 1)"
    attempts,       \* number of session.get calls issued so far
    last_status,    \* last_status
    last_exc,       \* last_exc
    failure,        \* last value of _classify_fetch_failure (printed)
    sleeps,         \* whole seconds of every asyncio.sleep backoff, in order
    fetched,        \* return value of fetch_url_content
    cpc,            \* position in crawl_and_extract
    html,           \* local html of crawl_and_extract
    rendered_html,  \* local rendered_html of crawl_and_extract
    renderCalls,    \* number of render_url_with_js invocations
    extracted,      \* return value of crawl_and_extract
    \* ---- one crawl_competitors call -------------------------------------
    competitor_urls, \* argument: the list of URLs
    max_concurrent,  \* argument: the semaphore's initial value
    bpc,             \* position in crawl_competitors
    semaphore,       \* free permits of the asyncio.Semaphore
    tpc,             \* position of each crawl_with_semaphore task
    tret,            \* return value of each finished task
    completion,      \* indices of the tasks in the order they finished
    competitor_data, \* return value of crawl_competitors
    \* ---- one wait_for(gather(...), timeout) batch -----------------------
    site,            \* which call site the batch belongs to
    dtask,           \* state of each awaitable of the batch
    dout,            \* what each finished awaitable returned or raised
    dpc,             \* position of the caller
    timedOut,        \* asyncio.TimeoutError was raised by wait_for
    results,         \* the caller's results list
    kept,            \* indices of the results the caller goes on to use
    \* ---- one call of a function that awaits nothing of its own ----------
    fn,              \* the function called
    args,            \* its arguments
    retval,          \* its return value: << >> until it returns, then <<value>>
    raised,          \* class name of the exception it raised, "" if none
    \* ---- one generate_seo_report / generate_analytics_report call -------
    rpc,             \* position in the function
    rin,             \* what each collaborator does when it is called
    rloc,            \* the function's locals
    rret,            \* its return value: << >> until it returns
    \* ---- the DynamoDB tables behind utils/auth.py, for one API key -------
    now,             \* int(time.time())
    rate_table,      \* request_time of the items of reelpostly-rate-limits
    rate_results,    \* the check_rate_limit calls that returned, in order of return
    rcalls,          \* the check_rate_limit calls between their query and their put
    initial_credits, \* the credits attribute before the first deduct_credits call
    credits,         \* the credits attribute of the item of reelpostly-tenants
    dcalls           \* the deduct_credits calls: position, cost, locals, outcome

crawlVars == <<call, env, playwright, target, fpc, attempt, attempts,
               last_status, last_exc, failure, sleeps, fetched,
               cpc, html, rendered_html, renderCalls, extracted>>

batchVars == <<competitor_urls, max_concurrent, bpc, semaphore, tpc, tret,
               completion, competitor_data>>

deadlineVars == <<site, dtask, dout, dpc, timedOut, results, kept>>

pureVars == <<fn, args, retval, raised>>

reportVars == <<rpc, rin, rloc, rret>>

storeVars == <<now, rate_table, rate_results, rcalls, initial_credits, credits, dcalls>>

vars == <<crawlVars, batchVars, deadlineVars, pureVars, reportVars, storeVars>>

(***************************************************************************)
(* Bounds of the model                                                     *)
(***************************************************************************)
MaxRetriesArg == 1      \* largest max_retries argument tried
MaxRetriesEnv == 2      \* largest CRAWLER_MAX_RETRIES value tried

(***************************************************************************)
(* Values                                                                  *)
(***************************************************************************)
Unset == << >>                        \* environment variable not set
SetTo(v) == << v >>                    \* environment variable set to v
PyNone == "None"                       \* a Python None argument

NoStatus == 0                          \* last_status: Optional[int] = None

RetryableStatuses == {408, 425, 429, 500, 502, 503, 504, 520, 521, 522, 523, 524}

\* HTTP statuses the model lets a site answer with.
Statuses == {200} \cup RetryableStatuses \cup {401, 402, 403, 404, 406, 407, 451}

\* Exceptions a fetch attempt can raise.  cls is the most specific of the
\* classes the code tests with isinstance; tls says whether str(exc).lower()
\* contains "ssl" or "certificate".
NoExc == [cls |-> "none", tls |-> FALSE]
Exceptions ==
    { [cls |-> "asyncio.TimeoutError", tls |-> FALSE],
      [cls |-> "aiohttp.ClientError",  tls |-> FALSE],   \* e.g. ServerDisconnectedError
      [cls |-> "aiohttp.ClientError",  tls |-> TRUE],    \* e.g. ClientConnectorCertificateError
      [cls |-> "Exception",            tls |-> TRUE],    \* e.g. a bare ssl.SSLError
      [cls |-> "Exception",            tls |-> FALSE] }  \* anything else

\* A response body / an HTML document, abstracted to what the code and the
\* claims look at:
\*   len        len(html), the raw length in characters
\*   visible    length of the visible text that extraction finds in it
\*   hasBody    "<body" in html.lower()
\*   spaShell   the document is an SPA shell (id="root", id="__next", ...)
\*   challenge  the body holds a bot-challenge marker (cloudflare, captcha, ...)
\*   isHtml     the response is HTML (content-type text/html, or an <html
\*              marker in the body); FALSE for JSON, binary and the like
NoneHtml == [kind |-> "None", len |-> 0, visible |-> 0,
             hasBody |-> FALSE, spaShell |-> FALSE, challenge |-> FALSE,
             isHtml |-> FALSE]
HtmlPages ==
    { p \in [kind : {"str"}, len : {0, 999, 1000}, visible : {0, 350},
             hasBody : BOOLEAN, spaShell : BOOLEAN, challenge : BOOLEAN,
             isHtml : {TRUE}] :
        /\ p.visible <= p.len
        /\ (p.len = 0) => (~p.hasBody /\ ~p.spaShell /\ ~p.challenge) }
NonHtmlPages ==
    [kind : {"str"}, len : {999, 1000}, visible : {0, 350},
     hasBody : {FALSE}, spaShell : {FALSE}, challenge : {FALSE},
     isHtml : {FALSE}]
Pages == HtmlPages \cup NonHtmlPages

\* Python truthiness of an Optional[str].
Truthy(h) == h.kind = "str" /\ h.len > 0

\* The sites of the model: one that answers every request with the same
\* status, for every status, and one that can answer anything.
Targets ==
    { [statuses |-> {s}, excs |-> {}] : s \in Statuses }
      \cup { [statuses |-> Statuses, excs |-> Exceptions] }

(***************************************************************************)
(* _classify_fetch_failure and _should_retry                               *)
(***************************************************************************)
\* marker: the body preview contains "captcha", "cloudflare" or "bot detection"
_classify_fetch_failure(status, marker, exc) ==
    IF exc # NoExc THEN
        IF exc.cls = "asyncio.TimeoutError" THEN "timeout"
        ELSE IF exc.tls THEN "tls_error"
        ELSE "network_error"
    ELSE IF status = NoStatus THEN "unknown"
    ELSE IF status \in {401, 402} THEN "auth_required"
    ELSE IF status \in {403, 406} THEN "forbidden"
    ELSE IF status \in {407} THEN "proxy_auth_required"
    ELSE IF status \in {408, 504} THEN "timeout"
    ELSE IF status \in {429} THEN "rate_limited"
    ELSE IF status \in {451} THEN "unavailable_legal"
    ELSE IF status \in {500, 502, 503, 520, 521, 522, 523, 524} THEN "upstream_error"
    ELSE IF marker THEN "waf_bot_protection"
    ELSE "http_error"

\* mutant of _should_retry: every non-200 status is retried
_should_retry_any_status(status, exc) ==
    IF exc # NoExc THEN exc.cls \in {"aiohttp.ClientError", "asyncio.TimeoutError"}
    ELSE TRUE

_should_retry(status, exc) ==
    IF exc # NoExc THEN exc.cls \in {"aiohttp.ClientError", "asyncio.TimeoutError"}
    ELSE IF status = NoStatus THEN TRUE
    ELSE status \in RetryableStatuses

(***************************************************************************)
(* fetch_url_content                                                       *)
(***************************************************************************)
\* max_retries = int(os.getenv("CRAWLER_MAX_RETRIES", str(max_retries)))
EffectiveMaxRetries(arg, envValue) ==
    IF envValue = Unset THEN arg ELSE envValue[1]

MaxRetries == EffectiveMaxRetries(call.max_retries, env.CRAWLER_MAX_RETRIES)

\* range(max_retries + 1)
AttemptRange(maxRetries) == 0 .. maxRetries

\* mutant of NextAttempt: the retry loop does not advance its counter
NextAttemptStuck(a) == a

\* the for loop's step to the next attempt
NextAttempt(a) == a + 1

\* "attempt < max_retries and _should_retry(...)"
RetryAfter(a, maxRetries, status, exc) ==
    a < maxRetries /\ _should_retry(status, exc)

Min(a, b) == IF a < b THEN a ELSE b

\* mutant of Backoff: the exponential backoff has no cap
BackoffUncapped(a) == 2 ^ a

\* whole seconds of "min(2 ** attempt, 8) + random.random()"
Backoff(a) == Min(2 ^ a, 8)

\* A failed attempt (non-200 response, or exception): log the class, then
\* either back off and continue or return None.
FailedAttempt(status, marker, exc) ==
    /\ last_status' = status
    /\ last_exc' = exc
    /\ failure' = _classify_fetch_failure(IF exc # NoExc THEN NoStatus ELSE status,
                                          IF exc # NoExc THEN FALSE ELSE marker, exc)
    /\ IF RetryAfter(attempt, MaxRetries, IF exc # NoExc THEN NoStatus ELSE status, exc)
       THEN /\ sleeps' = Append(sleeps, Backoff(attempt))
            /\ fpc' = "sleep"
            /\ fetched' = fetched
       ELSE /\ sleeps' = sleeps
            /\ fpc' = "returned"
            /\ fetched' = NoneHtml

\* One pass of the loop body: session.get, response.text(), and the handling
\* of the response or of the exception.
FetchAttempt ==
    /\ cpc = "fetch" /\ fpc = "request"
    /\ attempt \in AttemptRange(MaxRetries)
    /\ attempts' = attempts + 1
    /\ \/ \* HTTP 200: return text
          /\ 200 \in target.statuses
          /\ \E p \in Pages :
                /\ last_status' = 200
                /\ last_exc' = NoExc
                /\ fetched' = p
                /\ fpc' = "returned"
                /\ UNCHANGED <<failure, sleeps>>
       \/ \* any other status
          \E s \in target.statuses \ {200}, marker \in BOOLEAN :
                FailedAttempt(s, marker, NoExc)
       \/ \* session.get raises before a status is known
          \E e \in target.excs :
                FailedAttempt(last_status, FALSE, e)
       \/ \* response.text() raises after the status was stored
          \E s \in target.statuses, e \in target.excs :
                FailedAttempt(s, FALSE, e)
    /\ UNCHANGED <<call, env, playwright, target, attempt,
                   cpc, html, rendered_html, renderCalls, extracted>>
    /\ UNCHANGED <<batchVars, deadlineVars, pureVars, reportVars, storeVars>>

\* The backoff sleep is over: "continue" takes the loop to its next pass, or
\* out of the loop (and to the implicit return None) when the range is used up.
FetchWake ==
    /\ cpc = "fetch" /\ fpc = "sleep"
    /\ attempt' = NextAttempt(attempt)
    /\ IF attempt' \in AttemptRange(MaxRetries)
       THEN fpc' = "request" /\ fetched' = fetched
       ELSE fpc' = "returned" /\ fetched' = NoneHtml
    /\ UNCHANGED <<call, env, playwright, target, attempts, last_status,
                   last_exc, failure, sleeps,
                   cpc, html, rendered_html, renderCalls, extracted>>
    /\ UNCHANGED <<batchVars, deadlineVars, pureVars, reportVars, storeVars>>

(***************************************************************************)
(* extract_text_content, as far as the crawl claims need it                *)
(***************************************************************************)
ContentCap == 5000      \* "if len(main_content) > 5000"

NoneDict == [kind |-> "None", content |-> 0, challenge |-> FALSE]

\* content: length of the returned main_content (cut to the cap plus "...")
extract_text_content(h) ==
    [kind |-> "dict",
     content |-> IF h.visible > ContentCap THEN ContentCap + 3 ELSE h.visible,
     challenge |-> h.challenge]

(***************************************************************************)
(* crawl_and_extract and render_url_with_js                                *)
(***************************************************************************)
\* mutant of UseJsRender: the environment flag wins over a False argument
UseJsRenderEnvWins(arg, envEnabled) ==
    envEnabled \/ arg = "True"

\* "if use_js_render is None: use_js_render = os.getenv(...) in (...)"
UseJsRender(arg, envEnabled) ==
    IF arg = PyNone THEN envEnabled ELSE arg = "True"

MinHtmlLen == 1000      \* "len(html or "") < 1000"

\* "not html or len(html or "") < 1000 or "<body" not in (html or "").lower()"
LooksEmpty(h) ==
    \/ ~Truthy(h)
    \/ h.len < MinHtmlLen
    \/ ~h.hasBody

\* mutant of Finish: the "if not html: return None" guard is missing
FinishNoGuard(h) ==
    /\ cpc' = "done"
    /\ extracted' = extract_text_content(h)

\* "if not html: return None", else extract
Finish(h) ==
    /\ cpc' = "done"
    /\ extracted' = IF Truthy(h) THEN extract_text_content(h) ELSE NoneDict

\* fetch_url_content has returned: decide whether to try the JS render.
CrawlAfterFetch ==
    /\ cpc = "fetch" /\ fpc = "returned"
    /\ html' = fetched
    /\ IF LooksEmpty(fetched) /\ UseJsRender(call.use_js_render, env.CRAWLER_ENABLE_JS_RENDER)
       THEN /\ cpc' = "render"
            /\ renderCalls' = renderCalls + 1
            /\ UNCHANGED extracted
       ELSE /\ Finish(fetched)
            /\ UNCHANGED renderCalls
    /\ UNCHANGED <<call, env, playwright, target, fpc, attempt, attempts,
                   last_status, last_exc, failure, sleeps, fetched, rendered_html>>
    /\ UNCHANGED <<batchVars, deadlineVars, pureVars, reportVars, storeVars>>

\* What render_url_with_js can return: None without Playwright or on any
\* exception, else page.content().
RenderOutcomes ==
    IF playwright THEN HtmlPages \cup {NoneHtml} ELSE {NoneHtml}

\* render_url_with_js returns, and crawl_and_extract runs to its end.
CrawlRender ==
    /\ cpc = "render"
    /\ \E r \in RenderOutcomes :
          /\ rendered_html' = r
          /\ html' = IF Truthy(r) THEN r ELSE html
          /\ Finish(html')
    /\ UNCHANGED <<call, env, playwright, target, fpc, attempt, attempts,
                   last_status, last_exc, failure, sleeps, fetched, renderCalls>>
    /\ UNCHANGED <<batchVars, deadlineVars, pureVars, reportVars, storeVars>>

(***************************************************************************)
(* Each specification runs one call; the variables of the other calls stay *)
(* in the idle state below.                                                *)
(***************************************************************************)
CrawlIdle ==
    /\ call = [max_retries |-> 0, use_js_render |-> PyNone]
    /\ env = [CRAWLER_MAX_RETRIES |-> Unset, CRAWLER_ENABLE_JS_RENDER |-> FALSE]
    /\ playwright = FALSE
    /\ target = [statuses |-> {}, excs |-> {}]
    /\ fpc = "idle"
    /\ attempt = 0
    /\ attempts = 0
    /\ last_status = NoStatus
    /\ last_exc = NoExc
    /\ failure = ""
    /\ sleeps = << >>
    /\ fetched = NoneHtml
    /\ cpc = "idle"
    /\ html = NoneHtml
    /\ rendered_html = NoneHtml
    /\ renderCalls = 0
    /\ extracted = NoneDict

BatchIdle ==
    /\ competitor_urls = << >>
    /\ max_concurrent = 0
    /\ bpc = "idle"
    /\ semaphore = 0
    /\ tpc = << >>
    /\ tret = << >>
    /\ completion = << >>
    /\ competitor_data = << >>

DeadlineIdle ==
    /\ site = "idle"
    /\ dtask = << >>
    /\ dout = << >>
    /\ dpc = "idle"
    /\ timedOut = FALSE
    /\ results = << >>
    /\ kept = << >>

PureIdle ==
    /\ fn = "idle"
    /\ args = << >>
    /\ retval = << >>
    /\ raised = ""

ReportIdle ==
    /\ rpc = "idle"
    /\ rin = << >>
    /\ rloc = << >>
    /\ rret = << >>

StoreIdle ==
    /\ now = 0
    /\ rate_table = {}
    /\ rate_results = << >>
    /\ rcalls = << >>
    /\ initial_credits = 0
    /\ credits = 0
    /\ dcalls = << >>

InitCrawl ==
    /\ call \in [max_retries : 0 .. MaxRetriesArg,
                 use_js_render : {PyNone, "True", "False"}]
    /\ env \in [CRAWLER_MAX_RETRIES : {Unset} \cup {SetTo(n) : n \in 0 .. MaxRetriesEnv},
                CRAWLER_ENABLE_JS_RENDER : BOOLEAN]
    /\ playwright \in BOOLEAN
    /\ target \in Targets
    /\ fpc = "request"
    /\ attempt = 0
    /\ attempts = 0
    /\ last_status = NoStatus
    /\ last_exc = NoExc
    /\ failure = ""
    /\ sleeps = <<>>
    /\ fetched = NoneHtml
    /\ cpc = "fetch"
    /\ html = NoneHtml
    /\ rendered_html = NoneHtml
    /\ renderCalls = 0
    /\ extracted = NoneDict
    /\ BatchIdle
    /\ DeadlineIdle
    /\ PureIdle
    /\ ReportIdle
    /\ StoreIdle

NextCrawl ==
    \/ FetchAttempt
    \/ FetchWake
    \/ CrawlAfterFetch
    \/ CrawlRender

SpecCrawl == InitCrawl /\ [][NextCrawl]_vars

TypeOKCrawl ==
    /\ fpc \in {"idle", "request", "sleep", "returned"}
    /\ cpc \in {"idle", "fetch", "render", "done"}
    /\ attempts \in Nat

(***************************************************************************)
(* Claims about fetch_url_content and crawl_and_extract (SpecCrawl)        *)
(***************************************************************************)
Always(status) == target.statuses = {status} /\ target.excs = {}

\* a document that is there and not empty
HasHtml(h) == h.kind = "str" /\ h.len > 0

\* JS rendering is enabled for the call: by the argument, or by the
\* environment when the argument is None
JsEnabledForCall ==
    \/ call.use_js_render = "True"
    \/ call.use_js_render = PyNone /\ env.CRAWLER_ENABLE_JS_RENDER

\* C1 as stated: against a target that always answers 503, at most
\* (max_retries argument) + 1 GET attempts are issued.
C1_Original ==
    Always(503) => attempts <= call.max_retries + 1

\* C1, amended: against a target that always answers 503, fetch_url_content
\* issues at most R + 1 GET attempts, R being CRAWLER_MAX_RETRIES when it is
\* set and the max_retries argument otherwise, then returns None; and once it
\* has returned no further attempt is issued.
C1_RetryBound ==
    /\ [](Always(503) =>
            /\ attempts <= MaxRetries + 1
            /\ (fpc = "returned" => fetched = NoneHtml /\ attempts = MaxRetries + 1))
    /\ [][fpc = "returned" => attempts' = attempts]_vars

C1_Witness ==
    /\ Always(503) /\ fpc = "returned" /\ fetched = NoneHtml
    /\ env.CRAWLER_MAX_RETRIES # Unset
    /\ MaxRetries > call.max_retries
    /\ attempts = MaxRetries + 1

C3_TlsReturnsImmediately ==
    (last_exc # NoExc /\ last_exc.cls # "asyncio.TimeoutError" /\ last_exc.tls) =>
        (fpc = "returned" /\ fetched = NoneHtml /\ attempts = 1 /\ sleeps = << >>)

\* C4: fetch_url_content never returns a body that is a bot-challenge page.
C4_ChallengeIsFailure ==
    (fpc = "returned" /\ fetched.kind = "str") => ~fetched.challenge

\* C18: a 200 response that is not HTML is not returned by fetch_url_content:
\* whatever body it returns is HTML.
C18_NonHtmlRejected ==
    (fpc = "returned" /\ fetched.kind = "str") => fetched.isHtml

\* C5: when the renderer was invoked after a plain fetch that produced HTML,
\* the result is the extraction of the rendered HTML only if that has strictly
\* more visible text than the plain HTML, else the extraction of the plain
\* HTML; so the content returned is never shorter than that of the plain fetch.
C5_RenderOnlyIfMoreText ==
    (cpc = "done" /\ renderCalls > 0 /\ HasHtml(fetched)) =>
        /\ extracted = IF HasHtml(rendered_html) /\ rendered_html.visible > fetched.visible
                       THEN extract_text_content(rendered_html)
                       ELSE extract_text_content(fetched)
        /\ extracted.content >= extract_text_content(fetched).content

\* C6 as stated: the renderer is invoked only if JS rendering is enabled and
\* the plain fetch is missing, or its visible text is below the thin-content
\* threshold (350), or the raw HTML is an SPA shell.
C6_Original ==
    renderCalls > 0 =>
        /\ JsEnabledForCall
        /\ \/ ~HasHtml(fetched)
           \/ fetched.visible < 350
           \/ fetched.spaShell

\* C6, amended: the renderer is invoked, and at most once, only if JS
\* rendering is enabled for the call and the plain fetch result is missing or
\* empty, or the raw HTML is shorter than 1000 characters, or it has no <body
\* tag; when JS rendering is disabled the renderer is never invoked.
C6_RenderTrigger ==
    /\ renderCalls <= 1
    /\ (renderCalls > 0 =>
            /\ JsEnabledForCall
            /\ cpc # "fetch"
            /\ \/ ~HasHtml(fetched)
               \/ fetched.len < 1000
               \/ ~fetched.hasBody)
    /\ ~JsEnabledForCall => (renderCalls = 0 /\ cpc # "render")

C6_Witness ==
    /\ renderCalls = 1 /\ JsEnabledForCall
    /\ HasHtml(fetched) /\ fetched.len < 1000 /\ fetched.hasBody
    /\ fetched.visible >= 350 /\ ~fetched.spaShell

\* C7 as stated: against a target that always answers 403, crawl_and_extract
\* returns None.
C7_Original ==
    (Always(403) /\ cpc = "done") => extracted = NoneDict

\* C7, amended: against a target that always answers 403, crawl_and_extract
\* ends without raising, after one fetch attempt; it returns None when JS
\* rendering is disabled or the renderer yields no HTML, and the extraction of
\* the rendered HTML otherwise.
C7_ForbiddenTarget ==
    (Always(403) /\ cpc = "done") =>
        /\ attempts = 1 /\ fetched = NoneHtml
        /\ extracted = IF JsEnabledForCall /\ HasHtml(rendered_html)
                       THEN extract_text_content(rendered_html)
                       ELSE NoneDict
        /\ (~JsEnabledForCall => renderCalls = 0)

C7_Witness ==
    /\ Always(403) /\ cpc = "done" /\ ~JsEnabledForCall
    /\ MaxRetries >= 1 /\ extracted = NoneDict

\* a document that is there, not empty, and HTML
IsHtmlDocument(h) == h.kind = "str" /\ h.len > 0 /\ h.isHtml

\* C21: a crawl_and_extract call invokes the renderer at most once, extracts
\* only after the fetch (and the render, if invoked) has finished, and, once
\* it has ended, has returned None exactly when neither the fetch nor the
\* render produced HTML.
C21_NullIffNoHtml ==
    /\ renderCalls <= 1
    /\ (extracted # NoneDict => (fpc = "returned" /\ cpc = "done"))
    /\ (cpc = "done" =>
            (extracted = NoneDict <=>
                ~(IsHtmlDocument(fetched) \/ IsHtmlDocument(rendered_html))))

(***************************************************************************)
(* The retry loop of fetch_url_content alone, with retry counts large      *)
(* enough for the backoff cap to be reached                                *)
(***************************************************************************)
MaxBackoffRetries == 5      \* largest retry count tried

InitBackoff ==
    /\ call \in [max_retries : 0 .. MaxBackoffRetries, use_js_render : {PyNone}]
    /\ env \in [CRAWLER_MAX_RETRIES : {Unset, SetTo(MaxBackoffRetries)},
                CRAWLER_ENABLE_JS_RENDER : {FALSE}]
    /\ playwright = FALSE
    /\ target \in Targets
    /\ fpc = "request"
    /\ attempt = 0
    /\ attempts = 0
    /\ last_status = NoStatus
    /\ last_exc = NoExc
    /\ failure = ""
    /\ sleeps = <<>>
    /\ fetched = NoneHtml
    /\ cpc = "fetch"
    /\ html = NoneHtml
    /\ rendered_html = NoneHtml
    /\ renderCalls = 0
    /\ extracted = NoneDict
    /\ BatchIdle
    /\ DeadlineIdle
    /\ PureIdle
    /\ ReportIdle
    /\ StoreIdle

NextBackoff ==
    \/ FetchAttempt
    \/ FetchWake

SpecBackoff == InitBackoff /\ [][NextBackoff]_vars

\* whole seconds slept before the retry that follows attempt number a
CappedPowerOfTwo(a) == IF 2 ^ a < 8 THEN 2 ^ a ELSE 8

MaxUrls == 3            \* longest competitor_urls list tried
MaxConcurrent == 2      \* largest max_concurrent tried

UrlPool == <<"https://a.example", "https://b.example", "https://c.example",
             "https://d.example", "https://e.example">>

NoneRecord == [kind |-> "None", url |-> ""]

\* crawl_and_extract returned a record for url; "data['url'] = url"
RecordOf(url) == [kind |-> "dict", url |-> url]

\* "tasks = [crawl_with_semaphore(url) for url in competitor_urls]"
TaskIds(urls) == 1 .. Len(urls)

\* the tasks created so far
Tasks == DOMAIN tpc

\* the crawl_and_extract calls that are running
InFlight == {i \in Tasks : tpc[i] = "crawling"}

\* mutant of CanAcquire: the permit count is not looked at
CanAcquireAlways(value) == TRUE

\* asyncio.Semaphore.acquire goes through without waiting
CanAcquire(value) == value > 0

\* mutant of GatherResults: the results come in the order of completion
GatherAsCompleted(ret, done) == [k \in 1 .. Len(done) |-> ret[done[k]]]

\* asyncio.gather: the results are in the order of the awaitables passed
GatherResults(ret, done) == [k \in 1 .. Len(ret) |-> ret[k]]

\* "if result and isinstance(result, dict)"
IsRecord(r) == r.kind = "dict"

\* "if not competitor_urls: return []"; else the semaphore and one task per
\* URL are created and gather is awaited.
BatchStart ==
    /\ bpc = "start"
    /\ IF competitor_urls = << >>
       THEN /\ bpc' = "done"
            /\ competitor_data' = << >>
            /\ UNCHANGED <<semaphore, tpc, tret>>
       ELSE /\ bpc' = "gather"
            /\ semaphore' = max_concurrent
            /\ tpc' = [i \in TaskIds(competitor_urls) |-> "waiting"]
            /\ tret' = [i \in TaskIds(competitor_urls) |-> NoneRecord]
            /\ UNCHANGED competitor_data
    /\ UNCHANGED <<competitor_urls, max_concurrent, completion>>
    /\ UNCHANGED <<crawlVars, deadlineVars, pureVars, reportVars, storeVars>>

\* "async with semaphore:" entered by task i, which then calls
\* crawl_and_extract(url).  Any waiting task may get a free permit.
TaskAcquire(i) ==
    /\ bpc = "gather" /\ tpc[i] = "waiting"
    /\ CanAcquire(semaphore)
    /\ semaphore' = semaphore - 1
    /\ tpc' = [tpc EXCEPT ![i] = "crawling"]
    /\ UNCHANGED <<competitor_urls, max_concurrent, bpc, tret, completion,
                   competitor_data>>
    /\ UNCHANGED <<crawlVars, deadlineVars, pureVars, reportVars, storeVars>>

\* mutant of TaskFinish: the permit is released only when the crawl returned
\* a record
TaskFinishKeepsPermitOnFailure(i) ==
    /\ bpc = "gather" /\ tpc[i] = "crawling"
    /\ \E outcome \in {"record", "none", "raises"} :
          /\ tret' = [tret EXCEPT ![i] = IF outcome = "record"
                                         THEN RecordOf(competitor_urls[i])
                                         ELSE NoneRecord]
          /\ tpc' = [tpc EXCEPT ![i] = IF outcome = "raises" THEN "caught" ELSE "returned"]
          /\ semaphore' = IF outcome = "record" THEN semaphore + 1 ELSE semaphore
    /\ completion' = Append(completion, i)
    /\ UNCHANGED <<competitor_urls, max_concurrent, bpc, competitor_data>>
    /\ UNCHANGED <<crawlVars, deadlineVars, pureVars, reportVars, storeVars>>

\* crawl_and_extract of task i ends: with a record, with None, or by raising
\* (caught: "return None").  Leaving "async with" releases the permit.
TaskFinish(i) ==
    /\ bpc = "gather" /\ tpc[i] = "crawling"
    /\ \E outcome \in {"record", "none", "raises"} :
          /\ tret' = [tret EXCEPT ![i] = IF outcome = "record"
                                         THEN RecordOf(competitor_urls[i])
                                         ELSE NoneRecord]
          /\ tpc' = [tpc EXCEPT ![i] = IF outcome = "raises" THEN "caught" ELSE "returned"]
    /\ semaphore' = semaphore + 1
    /\ completion' = Append(completion, i)
    /\ UNCHANGED <<competitor_urls, max_concurrent, bpc, competitor_data>>
    /\ UNCHANGED <<crawlVars, deadlineVars, pureVars, reportVars, storeVars>>

TaskDone(i) == tpc[i] \in {"returned", "caught"}

\* gather returns once every task is done; the records are filtered out of
\* its result and returned.
BatchGather ==
    /\ bpc = "gather"
    /\ \A i \in Tasks : TaskDone(i)
    /\ competitor_data' = SelectSeq(GatherResults(tret, completion), IsRecord)
    /\ bpc' = "done"
    /\ UNCHANGED <<competitor_urls, max_concurrent, semaphore, tpc, tret, completion>>
    /\ UNCHANGED <<crawlVars, deadlineVars, pureVars, reportVars, storeVars>>

InitBatch ==
    /\ \E m \in 0 .. MaxUrls : competitor_urls = SubSeq(UrlPool, 1, m)
    /\ max_concurrent \in 1 .. MaxConcurrent
    /\ bpc = "start"
    /\ semaphore = 0
    /\ tpc = << >>
    /\ tret = << >>
    /\ completion = << >>
    /\ competitor_data = << >>
    /\ CrawlIdle
    /\ DeadlineIdle
    /\ PureIdle
    /\ ReportIdle
    /\ StoreIdle

NextBatch ==
    \/ BatchStart
    \/ \E i \in Tasks : TaskAcquire(i)
    \/ \E i \in Tasks : TaskFinish(i)
    \/ BatchGather

SpecBatch == InitBatch /\ [][NextBatch]_vars

(***************************************************************************)
(* Claims about crawl_competitors (SpecBatch)                              *)
(***************************************************************************)
\* C8: at every moment at most max_concurrent crawl_and_extract calls are in
\* flight, also when there are more URLs than permits.
C8_ConcurrencyBound ==
    Cardinality(InFlight) <= max_concurrent

C8_Witness ==
    /\ max_concurrent < Len(competitor_urls)
    /\ Cardinality(InFlight) = max_concurrent
    /\ \E i \in Tasks : tpc[i] = "waiting"
    /\ \E i \in Tasks : TaskDone(i)

RECURSIVE InInputOrder(_)
\* the records of the URLs whose crawl returned one, in the order of the
\* input list: a function of the per-URL outcomes only
InInputOrder(k) ==
    IF k = 0 THEN << >>
    ELSE IF tpc[k] = "returned" /\ tret[k].kind = "dict"
         THEN Append(InInputOrder(k - 1), [kind |-> "dict", url |-> competitor_urls[k]])
         ELSE InInputOrder(k - 1)

\* C10: crawl_competitors returns the records of the successful URLs in the
\* order of the input list, whatever order the crawls finished in.
C10_InputOrder ==
    (bpc = "done" /\ competitor_urls # << >>) =>
        competitor_data = InInputOrder(Len(competitor_urls))

\* a run where two successful crawls finished in the opposite of input order
C10_Witness ==
    /\ bpc = "done"
    /\ Len(competitor_data) >= 2
    /\ \E a, b \in 1 .. Len(completion) :
          /\ a < b /\ completion[a] > completion[b]
          /\ tret[completion[a]].kind = "dict"
          /\ tret[completion[b]].kind = "dict"

\* the URLs whose crawl_and_extract call returned a record
SuccessfulUrls ==
    {competitor_urls[i] : i \in {j \in Tasks : tret[j].kind = "dict"}}

\* C23: when crawl_competitors returns for a non-empty URL list, the task of
\* every URL has finished (with a record, with None, or by raising), the
\* result holds one record for each URL whose crawl returned a record and
\* nothing else, and all max_concurrent permits are free; while tasks are
\* running, the free permits plus the crawls in flight are max_concurrent.
C23_FailuresReleasePermits ==
    /\ (bpc = "gather" =>
            semaphore + Cardinality({i \in Tasks : tpc[i] = "crawling"}) = max_concurrent)
    /\ ((bpc = "done" /\ competitor_urls # << >>) =>
            /\ \A i \in 1 .. Len(competitor_urls) : tpc[i] \in {"returned", "caught"}
            /\ Len(completion) = Len(competitor_urls)
            /\ semaphore = max_concurrent
            /\ {competitor_data[k].url : k \in 1 .. Len(competitor_data)} = SuccessfulUrls
            /\ Len(competitor_data) = Cardinality(SuccessfulUrls)
            /\ \A k \in 1 .. Len(competitor_data) : competitor_data[k].kind = "dict")

\* a batch of three URLs that has returned: one crawl raised, one returned
\* None, one returned a record
C23_Witness ==
    /\ bpc = "done" /\ Len(competitor_urls) = 3
    /\ \E i \in Tasks : tpc[i] = "caught"
    /\ \E i \in Tasks : tpc[i] = "returned" /\ tret[i].kind = "None"
    /\ Len(competitor_data) = 1
    /\ semaphore = max_concurrent

(***************************************************************************)
(* asyncio.wait_for(asyncio.gather(tasks..., return_exceptions=True), t)   *)
(* at its four call sites                                                  *)
(*   seo_related      generate_seo_report, crawls of the related sites     *)
(*   analytics_comp   generate_analytics_report, competitor brand data     *)
(*   brand_seo        get_brand_visibility_data, the 8 SEO sources         *)
(*   brand_analytics  get_brand_visibility_data, the 2 analytics sources   *)
(***************************************************************************)
MaxBatchTasks == 3      \* most awaitables tried where the code fixes no number

RelatedSitesCap == 5    \* "related_sites_urls[:5]"
BrandSeoSources == 8    \* the tasks list of the SEO sources
BrandAnalyticsSources == 2   \* the analytics_tasks list

Sites == {"seo_related", "analytics_comp", "brand_seo", "brand_analytics"}

\* how many awaitables a batch of the site can hold
TaskCounts(s) ==
    IF s = "seo_related" THEN 1 .. Min(RelatedSitesCap, MaxBatchTasks)
    ELSE IF s = "analytics_comp" THEN 1 .. MaxBatchTasks
    ELSE IF s = "brand_seo" THEN {BrandSeoSources}
    ELSE {BrandAnalyticsSources}

\* What an awaitable of a batch can end in:
\*   usable    a dict the caller uses (with content / with available = True)
\*   unusable  None, or a dict without content / with available = False
\*   raised    an exception, which return_exceptions=True turns into a result
Outcomes == {"usable", "unusable", "raised"}

\* the placeholder the brand-visibility helper puts in on a timeout:
\* {'available': False, 'error': 'timeout'}
TimeoutPlaceholder == "unusable"

\* the caller's results list after asyncio.TimeoutError
ResultsOnTimeout(s, n) ==
    IF s \in {"seo_related", "analytics_comp"}
    THEN << >>
    ELSE [i \in 1 .. n |-> TimeoutPlaceholder]

\* the indices of the results the caller's loop goes on to use
RECURSIVE Usable(_, _)
Usable(res, k) ==
    IF k = 0 THEN << >>
    ELSE IF res[k] = "usable" THEN Append(Usable(res, k - 1), k)
         ELSE Usable(res, k - 1)

\* One awaitable of the batch finishes before the deadline.
AwaitableFinish(i) ==
    /\ dpc = "waiting" /\ dtask[i] = "running"
    /\ \E o \in Outcomes :
          /\ dout' = [dout EXCEPT ![i] = o]
          /\ dtask' = [dtask EXCEPT ![i] = "done"]
    /\ UNCHANGED <<site, dpc, timedOut, results, kept>>
    /\ UNCHANGED <<crawlVars, batchVars, pureVars, reportVars, storeVars>>

\* Every awaitable has finished: gather returns their results in order and
\* the caller processes them.
GatherInTime ==
    /\ dpc = "waiting"
    /\ \A i \in DOMAIN dtask : dtask[i] = "done"
    /\ results' = dout
    /\ kept' = Usable(results', Len(results'))
    /\ dpc' = "done"
    /\ UNCHANGED <<site, dtask, dout, timedOut>>
    /\ UNCHANGED <<crawlVars, batchVars, pureVars, reportVars, storeVars>>

\* The deadline passes while an awaitable is still running: wait_for cancels
\* the gather and raises asyncio.TimeoutError; the except branch sets results
\* and the caller processes them.
DeadlineExpires ==
    /\ dpc = "waiting"
    /\ \E i \in DOMAIN dtask : dtask[i] = "running"
    /\ timedOut' = TRUE
    /\ dtask' = [i \in DOMAIN dtask |->
                    IF dtask[i] = "running" THEN "cancelled" ELSE dtask[i]]
    /\ results' = ResultsOnTimeout(site, Len(dtask))
    /\ kept' = Usable(results', Len(results'))
    /\ dpc' = "done"
    /\ UNCHANGED <<site, dout>>
    /\ UNCHANGED <<crawlVars, batchVars, pureVars, reportVars, storeVars>>

InitDeadline ==
    /\ site \in Sites
    /\ \E n \in TaskCounts(site) :
          /\ dtask = [i \in 1 .. n |-> "running"]
          /\ dout = [i \in 1 .. n |-> "pending"]
    /\ dpc = "waiting"
    /\ timedOut = FALSE
    /\ results = << >>
    /\ kept = << >>
    /\ CrawlIdle
    /\ BatchIdle
    /\ PureIdle
    /\ ReportIdle
    /\ StoreIdle

NextDeadline ==
    \/ \E i \in DOMAIN dtask : AwaitableFinish(i)
    \/ GatherInTime
    \/ DeadlineExpires

SpecDeadline == InitDeadline /\ [][NextDeadline]_vars

(***************************************************************************)
(* Claims about the outer deadline (SpecDeadline)                          *)
(***************************************************************************)
InSeq(x, q) == \E k \in 1 .. Len(q) : q[k] = x

\* C9: when the outer deadline expires, the results of the awaitables that
\* had already finished are kept: every usable result that was there at the
\* deadline is among those the caller goes on to use.
C9_CompletedKeptOnTimeout ==
    (dpc = "done" /\ timedOut) =>
        \A i \in DOMAIN dtask :
            (dtask[i] = "done" /\ dout[i] = "usable") => InSeq(i, kept)


(***************************************************************************)
(* extract_text_content in full (web_crawler.py 191-282)                   *)
(*                                                                         *)
(* A document is what BeautifulSoup makes of the html argument.  Texts     *)
(* whose only observable property is their length (main content, heading   *)
(* and list-item texts) are represented by that length; title and          *)
(* description are strings; an absent tag is << >>, a present one <<text>>.*)
(***************************************************************************)
MaxLists == 3

HeadingsCap == 10
FeaturesCap == 15
FeatureListsCap == 3
ListItemsCap == 10
TextLimit == 200

\* seq[:n]
SliceUncut(seq, n) == seq
Slice(seq, n) == SubSeq(seq, 1, Min(Len(seq), n))

\* UNION of the sequences of length 0 .. n over S
SeqsUpTo(S, n) == UNION { [1 .. k -> S] : k \in 0 .. n }

\* the texts of the h1/h2/h3 tags, in document order
HeadingCounts == {0, 1, 10, 11, 14}
HeadingTexts ==
    { [k \in 1 .. n |-> IF k % m = 0 THEN odd ELSE 50] :
        n \in HeadingCounts, m \in {4, 15}, odd \in {0, 200} }

\* a <ul>/<ol>: whether its class matches feature|benefit|list, and the
\* texts of its <li> items
Repeat(x, n) == [k \in 1 .. n |-> x]
ListTags ==
    { [feature |-> TRUE,  items |-> Repeat(40, 12)],
      [feature |-> TRUE,  items |-> <<40, 0, 200, 40>>],
      [feature |-> FALSE, items |-> Repeat(40, 12)] }

Documents ==
    [parses : BOOLEAN,
     titleTag : {<< >>, <<"Acme">>},
     ogTitle : {<< >>, <<"Acme | Home">>},
     metaDescription : {<< >>, <<"We make anvils">>},
     ogDescription : {<< >>, <<"Anvils">>},
     mainText : {0, 5000, 5001, 9000},
     headingTags : HeadingTexts,
     listTags : SeqsUpTo(ListTags, MaxLists)]

ExtractUrls == {"", "https://acme.com"}

\* the record of the except branch
ExtractFailedNoUrl(url) ==
    [title |-> "", description |-> "", content |-> 0,
     headings |-> << >>, features |-> << >>, url |-> ""]
ExtractFailed(url) ==
    [title |-> "", description |-> "", content |-> 0,
     headings |-> << >>, features |-> << >>, url |-> url]

Reasonable(len) == len > 0 /\ len < TextLimit

RECURSIVE Concat(_)
Concat(seqs) ==
    IF seqs = << >> THEN << >> ELSE seqs[1] \o Concat(Tail(seqs))

FeatureSection(l) == l.feature
FeatureItems(doc) ==
    LET sections == Slice(SelectSeq(doc.listTags, FeatureSection), FeatureListsCap)
    IN  Concat([k \in 1 .. Len(sections) |->
                   SelectSeq(Slice(sections[k].items, ListItemsCap), Reasonable)])

ExtractTextContent(doc, url) ==
    IF ~doc.parses THEN ExtractFailed(url)
    ELSE
    [title |-> IF doc.titleTag # << >> THEN doc.titleTag[1]
               ELSE IF doc.ogTitle # << >> THEN doc.ogTitle[1] ELSE "",
     description |-> IF doc.metaDescription # << >> THEN doc.metaDescription[1]
                     ELSE IF doc.ogDescription # << >> THEN doc.ogDescription[1]
                     ELSE "",
     content |-> IF doc.mainText > ContentCap THEN ContentCap + 3
                 ELSE doc.mainText,
     headings |-> Slice(SelectSeq(doc.headingTags, Reasonable), HeadingsCap),
     features |-> Slice(FeatureItems(doc), FeaturesCap),
     url |-> url]

CallExtractTextContent ==
    /\ fn = "extract_text_content"
    /\ retval = << >>
    /\ retval' = << ExtractTextContent(args.html, args.url) >>
    /\ UNCHANGED <<fn, args, raised>>
    /\ UNCHANGED <<crawlVars, batchVars, deadlineVars, reportVars, storeVars>>

InitExtract ==
    /\ fn = "extract_text_content"
    /\ args \in [html : Documents, url : ExtractUrls]
    /\ retval = << >>
    /\ raised = ""
    /\ CrawlIdle
    /\ BatchIdle
    /\ DeadlineIdle
    /\ ReportIdle
    /\ StoreIdle

NextExtract == CallExtractTextContent

SpecExtract == InitExtract /\ [][NextExtract]_vars

Returned == retval # << >>

\* C11: extract_text_content never raises; when the html cannot be parsed
\* it returns the record whose title, description and content are empty,
\* whose list fields are empty lists and whose url is the url argument.
C11_ParseFailureRecord ==
    /\ raised = ""
    /\ (Returned /\ ~args.html.parses) =>
          /\ retval[1].title = ""
          /\ retval[1].description = ""
          /\ retval[1].content = 0
          /\ retval[1].headings = << >>
          /\ retval[1].features = << >>
          /\ retval[1].url = args.url

C11_Witness ==
    /\ Returned
    /\ ~args.html.parses
    /\ args.html.titleTag # << >>
    /\ args.html.mainText > 0
    /\ args.url # ""

\* crawled_data.get("internal_links") or []
InternalLinks(rec) ==
    IF "internal_links" \in DOMAIN rec THEN rec.internal_links ELSE << >>

\* C12: the returned record holds at most 8000 characters of content (plus
\* the ellipsis), at most 12 headings and at most 18 features; it has no
\* more than 10 internal links (the record of this code has no such field,
\* so its readers see the empty list).
C12_RecordBounded ==
    Returned =>
        /\ retval[1].content <= 8000 + 3
        /\ Len(retval[1].headings) <= 12
        /\ Len(retval[1].features) <= 18
        /\ Len(InternalLinks(retval[1])) <= 10

C12_Witness ==
    /\ Returned
    /\ args.html.parses
    /\ args.html.mainText > 8000
    /\ Len(args.html.headingTags) > 12
    /\ Len(FeatureItems(args.html)) > 18
    /\ Len(retval[1].headings) = HeadingsCap
    /\ Len(retval[1].features) = FeaturesCap


(***************************************************************************)
(* The evidence object of generate_seo_report (seo_helper.py 224-512,      *)
(* 735-756)                                                                *)
(*                                                                         *)
(* Only sizes matter here: a string is its length, a list its element      *)
(* count.  A piece of evidence is the set of the strings and lists it      *)
(* holds, each tagged with the place it sits at.                           *)
(***************************************************************************)
Str(at, len) == [at |-> at, kind |-> "str", size |-> len]
Lst(at, n)   == [at |-> at, kind |-> "list", size |-> n]

NoData == [kind |-> "None"]
IsNone(x) == x.kind = "None"

\* text[: max_chars - 3].rstrip() + "..." is at most max_chars long
_truncate_text(len, max_chars) ==
    IF len <= max_chars THEN len ELSE max_chars

_build_site_evidence(data, fallback_url) ==
    IF IsNone(data)
    THEN { Str("url", fallback_url), Str("title", 0), Str("description", 0),
           Str("h1", 0), Lst("headings", 0), Lst("features", 0),
           Lst("internal_links", 0), Str("content_excerpt", 0),
           Lst("quotes", 0) }
    ELSE { Str("url", IF data.url > 0 THEN data.url ELSE fallback_url),
           Str("title", _truncate_text(data.title, 160)),
           Str("description", _truncate_text(data.description, 400)),
           Str("h1", _truncate_text(0, 200)),
           Lst("headings", Min(data.headings, 10)),
           Lst("features", Min(data.features, 12)),
           Lst("internal_links", Min(0, 8)),
           Str("content_excerpt", _truncate_text(data.content, 1200)),
           Lst("quotes", Min(data.sentences, 3)),
           Str("quotes[].quote", _truncate_text(data.sentence, 220)) }

_build_related_sites_evidence(related_data, normalized_url) ==
    { Lst("related_sites", Min(related_data.count, 5)) }
    \cup (IF related_data.count = 0 THEN {}
          ELSE _build_site_evidence(related_data.item, normalized_url))

_build_keyword_rankings_evidence(rankings_data) ==
    IF IsNone(rankings_data) THEN {}
    ELSE { Str("summary", rankings_data.summary),
           Lst("extracted_keywords", Min(rankings_data.extracted_keywords, 15)),
           Lst("target_keywords", Min(rankings_data.target_keywords, 15)),
           Lst("rankings", Min(rankings_data.rankings, 15)) }
         \cup (IF rankings_data.rankings = 0 THEN {}
               ELSE { Str("rankings[].keyword", rankings_data.keyword) })

_build_competitor_keywords_evidence(comp_data) ==
    IF IsNone(comp_data) THEN {}
    ELSE { Lst("competitor_urls", Min(comp_data.competitor_keywords, 6)),
           Lst("competitor_pages", Min(comp_data.competitor_pages, 6)),
           Lst("keyword_gaps", Min(comp_data.keyword_gaps, 25)),
           Lst("high_volume_keywords", Min(comp_data.high_volume_keywords, 15)) }
         \cup (IF comp_data.competitor_pages = 0 THEN {}
               ELSE { Str("competitor_pages[].title", comp_data.page.title),
                      Str("competitor_pages[].description", comp_data.page.description),
                      Lst("competitor_pages[].headings", Min(comp_data.page.headings, 8)) })

\* keyword_clusters if keyword_clusters and not keyword_clusters.get("error") else {}
KeywordClustersEvidence(keyword_clusters) ==
    IF IsNone(keyword_clusters) \/ keyword_clusters.error THEN {}
    ELSE { Lst("intent.commercial", keyword_clusters.commercial),
           Str("intent.commercial[]", keyword_clusters.keyword) }

_filter_brand_visibility_evidence(items, max_items) ==
    { Lst("brand_visibility_evidence", Min(items.count, max_items)) }
    \cup (IF items.count = 0 THEN {}
          ELSE { Str("url", items.url),
                 Str("title", Min(items.title, 180)),
                 Str("excerpt", Min(items.excerpt, 320)) })

\* tech_evidence is what collect_technical_evidence returned, as it is
TechEvidence(tech) ==
    IF IsNone(tech) THEN {}
    ELSE { Str("homepage_fetch.headers", tech.headers),
           Lst("head_signals.schema_types", tech.schema_types) }

EvidenceSummary(a) ==
    [site |-> _build_site_evidence(a.crawled_data, a.normalized_url),
     related_sites |-> _build_related_sites_evidence(a.related_sites_data, a.normalized_url),
     tech |-> TechEvidence(a.tech_evidence),
     keyword_rankings |-> _build_keyword_rankings_evidence(a.keyword_rankings_data),
     competitor_keywords |-> _build_competitor_keywords_evidence(a.competitor_keywords_data),
     keyword_clusters |-> KeywordClustersEvidence(a.keyword_clusters),
     brand_visibility_evidence |->
         _filter_brand_visibility_evidence(a.brand_items, 20)]

\* what the collaborators can hand over: short and long strings, short and
\* long lists
CrawledPages ==
    [kind : {"dict"}, url : {0, 30}, title : {0, 6000}, description : {100},
     content : {5003}, headings : {10}, features : {15},
     sentences : {0, 9}, sentence : {6000}]
RankingsData ==
    [kind : {"dict"}, summary : {80}, extracted_keywords : {10},
     target_keywords : {0, 40}, rankings : {0, 10}, keyword : {8, 6000}]
CompetitorData ==
    [kind : {"dict"}, competitor_keywords : {5}, competitor_pages : {0, 9},
     keyword_gaps : {30}, high_volume_keywords : {20},
     page : [title : {60, 6000}, description : {150}, headings : {30}]]
ClusterData ==
    [kind : {"dict"}, error : BOOLEAN, commercial : {3, 100}, keyword : {8}]
TechData ==
    [kind : {"dict"}, headers : {300, 20000}, schema_types : {2}]
BrandItems ==
    [count : {0, 30}, url : {40}, title : {500}, excerpt : {2000}]
RelatedData ==
    { [count |-> n, item |-> p] :
        n \in {0, 7}, p \in {q \in CrawledPages : q.url > 0 /\ q.sentences = 0} }

EvidenceInputs ==
    [normalized_url : {30},
     crawled_data : {NoData} \cup CrawledPages,
     related_sites_data : RelatedData,
     keyword_rankings_data : {NoData} \cup RankingsData,
     competitor_keywords_data : {NoData} \cup { c \in CompetitorData : c.page.title = 6000 },
     keyword_clusters : {NoData} \cup { c \in ClusterData : c.commercial = 3 },
     tech_evidence : {NoData} \cup { t \in TechData : t.headers = 300 },
     brand_items : BrandItems]

BuildEvidenceSummary ==
    /\ fn = "evidence_summary"
    /\ retval = << >>
    /\ retval' = << EvidenceSummary(args) >>
    /\ UNCHANGED <<fn, args, raised>>
    /\ UNCHANGED <<crawlVars, batchVars, deadlineVars, reportVars, storeVars>>

InitEvidence ==
    /\ fn = "evidence_summary"
    /\ args \in EvidenceInputs
    /\ retval = << >>
    /\ raised = ""
    /\ CrawlIdle
    /\ BatchIdle
    /\ DeadlineIdle
    /\ ReportIdle
    /\ StoreIdle

NextEvidence == BuildEvidenceSummary

SpecEvidence == InitEvidence /\ [][NextEvidence]_vars

\* the largest character budget and the largest list cap the builders use
LargestTextBudget == 1200
LargestListCap == 25

\* C13: every string of the evidence object is within a fixed character
\* budget and every list of it within a fixed count, whatever the sizes of
\* the crawled pages and of the collaborators' outputs.
C13_EvidenceBounded ==
    Returned =>
        \A key \in DOMAIN retval[1] :
            \A e \in retval[1][key] :
                /\ e.kind = "str" => e.size <= LargestTextBudget
                /\ e.kind = "list" => e.size <= LargestListCap


(***************************************************************************)
(* generate_seo_report: the evidence-gathering stages (seo_helper.py       *)
(* 538-651), the evidence assembly (735-756) and the report generation     *)
(* (833-940)                                                               *)
(*                                                                         *)
(* rin gives, for every collaborator, what it does when it is awaited:     *)
(*   "ok"       returns usable data                                        *)
(*   "none"     returns None / an empty or not-available result            *)
(*   "raises"   raises an Exception                                        *)
(*   "timeout"  does not finish within the wait_for deadline of the stage  *)
(***************************************************************************)
SeoStages ==
    <<"crawl", "related", "rankings", "competitors", "clusters", "brand", "tech">>

\* stages that await under asyncio.wait_for
TimedStages == {"related", "brand", "tech"}

StageOutcomes(stage) ==
    {"ok", "none", "raises"} \cup (IF stage \in TimedStages THEN {"timeout"} ELSE {})

SeoCollaborators == {SeoStages[k] : k \in DOMAIN SeoStages} \cup {"llm"}

SeoInputs ==
    { f \in [SeoCollaborators -> {"ok", "none", "raises", "timeout"}] :
        /\ \A k \in DOMAIN SeoStages : f[SeoStages[k]] \in StageOutcomes(SeoStages[k])
        /\ f["llm"] \in {"ok", "raises"} }

\* the locals as the function sets them before the first stage
SeoLocals ==
    [crawled_data |-> "None",
     related_sites_data |-> "empty",
     keyword_rankings_data |-> "None",
     competitor_keywords_data |-> "None",
     keyword_clusters |-> "None",
     brand_visibility_evidence |-> "empty",
     tech_evidence |-> "not_available",
     evidence_summary |-> << >>]

\* every stage is wrapped in try / except Exception; asyncio.TimeoutError
\* and TypeError are Exceptions, so the stage's handler takes them all
CaughtOnlyTimeout(stage, exc) == exc = "TimeoutError"
Caught(stage, exc) == exc \in {"Exception", "TimeoutError", "TypeError"}

\* value a stage leaves in its local
StageValue(stage, outcome) ==
    CASE stage = "crawl"       -> IF outcome = "ok" THEN "dict" ELSE "None"
      [] stage = "related"     -> IF outcome = "ok" THEN "data" ELSE "empty"
      [] stage = "rankings"    -> IF outcome = "ok" THEN "dict" ELSE "None"
      [] stage = "competitors" -> IF outcome = "ok" THEN "dict" ELSE "None"
      [] stage = "clusters"    -> IF outcome = "ok" THEN "dict" ELSE "None"
      [] stage = "brand"       -> IF outcome = "ok" THEN "items" ELSE "empty"
      [] stage = "tech"        -> IF outcome = "ok" THEN "available"
                                  ELSE "not_available"

StageLocal(stage) ==
    CASE stage = "crawl"       -> "crawled_data"
      [] stage = "related"     -> "related_sites_data"
      [] stage = "rankings"    -> "keyword_rankings_data"
      [] stage = "competitors" -> "competitor_keywords_data"
      [] stage = "clusters"    -> "keyword_clusters"
      [] stage = "brand"       -> "brand_visibility_evidence"
      [] stage = "tech"        -> "tech_evidence"

\* "if crawled_data:" before the related sites, "if keyword_rankings_data
\* and keyword_rankings_data.get('rankings'):" before the clustering
StageRuns(stage, loc) ==
    CASE stage = "related"  -> loc.crawled_data = "dict"
      [] stage = "clusters" -> loc.keyword_rankings_data = "dict"
      [] OTHER              -> TRUE

StageAfter(k) == IF k < Len(SeoStages) THEN SeoStages[k + 1] ELSE "evidence"

\* the exception a stage's try block sees, "" if none;
\* tech_evidence["available"] = True on a None result is a TypeError
RaisedIn(stage, outcome) ==
    CASE outcome = "raises"                 -> "Exception"
      [] outcome = "timeout"                -> "TimeoutError"
      [] stage = "tech" /\ outcome = "none" -> "TypeError"
      [] OTHER                              -> ""

SeoStage(k) ==
    LET stage == SeoStages[k]
        outcome == rin[stage]
    IN  /\ rpc = stage
        /\ IF ~StageRuns(stage, rloc)
           THEN /\ rpc' = StageAfter(k)
                /\ UNCHANGED rloc
           ELSE IF RaisedIn(stage, outcome) # "" /\ ~Caught(stage, RaisedIn(stage, outcome))
           THEN /\ rpc' = "aborted"
                /\ UNCHANGED rloc
           ELSE /\ rpc' = StageAfter(k)
                /\ rloc' = [rloc EXCEPT ![StageLocal(stage)] = StageValue(stage, outcome)]
        /\ UNCHANGED <<rin, rret>>
        /\ UNCHANGED <<crawlVars, batchVars, deadlineVars, pureVars, storeVars>>

SeoEvidenceSummary(loc) ==
    [site |-> IF loc.crawled_data = "dict" THEN "data" ELSE "empty",
     related_sites |-> loc.related_sites_data,
     tech |-> loc.tech_evidence,
     keyword_rankings |-> IF loc.keyword_rankings_data = "dict" THEN "data" ELSE "empty",
     competitor_keywords |-> IF loc.competitor_keywords_data = "dict" THEN "data" ELSE "empty",
     keyword_clusters |-> IF loc.keyword_clusters = "dict" THEN "data" ELSE "empty",
     strategy |-> "derived",
     brand_visibility_evidence |-> loc.brand_visibility_evidence]

SeoBuildEvidence ==
    /\ rpc = "evidence"
    /\ rloc' = [rloc EXCEPT !.evidence_summary = SeoEvidenceSummary(rloc)]
    /\ rpc' = "llm"
    /\ UNCHANGED <<rin, rret>>
    /\ UNCHANGED <<crawlVars, batchVars, deadlineVars, pureVars, storeVars>>

\* get_openai_client() and client.chat.completions.create are outside any
\* try: what they raise reaches the caller
SeoGenerate ==
    /\ rpc = "llm"
    /\ IF rin["llm"] = "ok"
       THEN /\ rpc' = "returned"
            /\ rret' = << [report |-> "markdown",
                           brand_visibility_evidence |-> rloc.brand_visibility_evidence] >>
       ELSE /\ rpc' = "llm_raised"
            /\ UNCHANGED rret
    /\ UNCHANGED <<rin, rloc>>
    /\ UNCHANGED <<crawlVars, batchVars, deadlineVars, pureVars, storeVars>>

InitSeoReport ==
    /\ rpc = "crawl"
    /\ rin \in SeoInputs
    /\ rloc = SeoLocals
    /\ rret = << >>
    /\ CrawlIdle
    /\ BatchIdle
    /\ DeadlineIdle
    /\ PureIdle
    /\ StoreIdle

NextSeoReport ==
    \/ \E k \in DOMAIN SeoStages : SeoStage(k)
    \/ SeoBuildEvidence
    \/ SeoGenerate

\* the function is one coroutine: it goes on whenever it can take a step
SpecSeoReport ==
    InitSeoReport /\ [][NextSeoReport]_vars /\ WF_vars(NextSeoReport)

EvidenceKeys ==
    {"site", "related_sites", "tech", "keyword_rankings", "competitor_keywords",
     "keyword_clusters", "strategy", "brand_visibility_evidence"}

ReportGenerationReached == rpc \in {"llm", "returned", "llm_raised"}

\* the evidence key fed by a stage, and the values that say "nothing there"
EvidenceKeyOf(stage) ==
    CASE stage = "crawl"       -> "site"
      [] stage = "related"     -> "related_sites"
      [] stage = "rankings"    -> "keyword_rankings"
      [] stage = "competitors" -> "competitor_keywords"
      [] stage = "clusters"    -> "keyword_clusters"
      [] stage = "brand"       -> "brand_visibility_evidence"
      [] stage = "tech"        -> "tech"

StageFailed(stage) == rin[stage] # "ok"

\* C14: a failure (exception, null result, timeout) of any gathering stage
\* never stops generate_seo_report: no stage lets an exception out, the
\* evidence object is built with all its keys, every failed source is in it
\* as an empty or not-available value, and the report generation is reached.
C14_FailureNeverStops ==
    /\ [](/\ rpc # "aborted"
          /\ ReportGenerationReached =>
                /\ DOMAIN rloc.evidence_summary = EvidenceKeys
                /\ \A k \in DOMAIN SeoStages :
                      StageFailed(SeoStages[k]) =>
                          rloc.evidence_summary[EvidenceKeyOf(SeoStages[k])]
                              \in {"empty", "not_available"})
    /\ <>ReportGenerationReached

C14_Witness ==
    /\ ReportGenerationReached
    /\ rin["crawl"] = "ok"
    /\ rin["related"] = "timeout"
    /\ rin["rankings"] = "ok"
    /\ rin["competitors"] = "raises"
    /\ rin["clusters"] = "none"
    /\ rin["brand"] = "timeout"
    /\ rin["tech"] = "raises"


(***************************************************************************)
(* check_keyword_ranking (web_crawler.py 676-761)                          *)
(*                                                                         *)
(* A host name is a sequence of pieces, so that "in" between two host      *)
(* names is the infix test Python makes on the strings.                    *)
(***************************************************************************)
MaxResultLinks == 3

Apple        == <<"apple", ".com">>
WwwApple     == <<"www.", "apple", ".com">>
PineApple    == <<"pine", "apple", ".com">>
ShopApple    == <<"shop.", "apple", ".com">>
Pear         == <<"pear", ".com">>
Wikipedia    == <<"en.", "wikipedia.org">>
Hosts == {Apple, WwwApple, PineApple, ShopApple, Pear}

\* a in b, for strings
Infix(a, b) ==
    \E i \in 0 .. Len(b) - Len(a) :
        \A k \in 1 .. Len(a) : b[i + k] = a[k]

\* netloc.lower().replace('www.', '')
NotWww(piece) == piece # "www."
DomainOf(netloc) == SelectSeq(netloc, NotWww)

\* a scraped result link: href is a DuckDuckGo redirect ("uddg"), an absolute
\* URL ("http") or anything else ("other"); netloc is the host of the URL it
\* leads to
ResultLinks ==
    [href : {"uddg", "http"}, netloc : Hosts]
    \cup {[href |-> "other", netloc |-> Pear]}

\* actual_url, or None
HasActualUrl(link) == link.href \in {"uddg", "http"}

\* the test of line 738
IsTargetWebsite(website_domain, result_domain) ==
    Infix(website_domain, result_domain) \/ Infix(result_domain, website_domain)

NoRanking == [kind |-> "None", found |-> FALSE, position |-> << >>]

RECURSIVE FirstMatch(_, _, _)
\* position of the first link from k on that passes the test, 0 if none
FirstMatch(links, website_domain, k) ==
    IF k > Len(links) THEN 0
    ELSE IF HasActualUrl(links[k])
            /\ IsTargetWebsite(website_domain, DomainOf(links[k].netloc))
         THEN k
         ELSE FirstMatch(links, website_domain, k + 1)

CheckKeywordRanking(a) ==
    IF a.status # 200 THEN NoRanking
    ELSE LET website_domain == DomainOf(a.website_netloc)
             scanned == Slice(a.result_links, a.max_results)
             position == FirstMatch(scanned, website_domain, 1)
         IN  IF position > 0
             THEN [kind |-> "dict", found |-> TRUE, position |-> <<position>>]
             ELSE [kind |-> "dict", found |-> FALSE, position |-> << >>]

CallCheckKeywordRanking ==
    /\ fn = "check_keyword_ranking"
    /\ retval = << >>
    /\ retval' = << CheckKeywordRanking(args) >>
    /\ UNCHANGED <<fn, args, raised>>
    /\ UNCHANGED <<crawlVars, batchVars, deadlineVars, reportVars, storeVars>>

InitRanking ==
    /\ fn = "check_keyword_ranking"
    /\ args \in [website_netloc : {Apple, WwwApple, Pear},
                 max_results : {MaxResultLinks - 1, MaxResultLinks},
                 status : {200, 503},
                 result_links : SeqsUpTo(ResultLinks, MaxResultLinks)]
    /\ retval = << >>
    /\ raised = ""
    /\ CrawlIdle
    /\ BatchIdle
    /\ DeadlineIdle
    /\ ReportIdle
    /\ StoreIdle

NextRanking == CallCheckKeywordRanking

SpecRanking == InitRanking /\ [][NextRanking]_vars

\* C15: found is true only if the target site's domain is the domain of
\* one of the first max_results result links, and position is then the
\* 1-based rank of such a link; found is true exactly when position is set.
C15_FoundOnlyOwnDomain ==
    (Returned /\ retval[1].kind = "dict") =>
        /\ retval[1].found <=> retval[1].position # << >>
        /\ retval[1].found =>
              LET p == retval[1].position[1]
              IN  /\ p \in 1 .. args.max_results
                  /\ p <= Len(args.result_links)
                  /\ DomainOf(args.result_links[p].netloc)
                        = DomainOf(args.website_netloc)


(***************************************************************************)
(* extract_keywords_from_content (web_crawler.py 602-673)                  *)
(*                                                                         *)
(* A text is the sequence of its lowercased words; a keyword is a sequence *)
(* of one word, or of two for a phrase.                                    *)
(***************************************************************************)
MaxTitleWords == 2
MaxContentWords == 4
MaxKeywordsArg == 3

Vocabulary == {"ai", "seo", "the", "with", "video", "editor"}
WordLen(w) ==
    CASE w = "ai" -> 2 [] w = "seo" -> 3 [] w = "the" -> 3
      [] w = "with" -> 4 [] w = "video" -> 5 [] w = "editor" -> 6
\* the members of stop_words that are in the vocabulary
stop_words == {"the", "with"}

Longer2(w) == WordLen(w) > 2
Longer3(w) == WordLen(w) > 3
TitleKeyword(w) == w \notin stop_words /\ WordLen(w) > 2
BodyKeyword(w) == w \notin stop_words /\ WordLen(w) > 3

\* [ <<w>> for w in words ]
Singles(words) == [k \in 1 .. Len(words) |-> << words[k] >>]

\* re.findall(r'\b\w{3,}\s+\w{3,}\b', text): pairs of neighbouring words of
\* three letters or more, left to right, without overlap
RECURSIVE Phrases(_)
Phrases(text) ==
    IF Len(text) < 2 THEN << >>
    ELSE IF Longer2(text[1]) /\ Longer2(text[2])
         THEN << <<text[1], text[2]>> >> \o Phrases(SubSeq(text, 3, Len(text)))
         ELSE Phrases(Tail(text))

\* number of occurrences of w in words
RECURSIVE Count(_, _)
Count(w, words) ==
    IF words = << >> THEN 0
    ELSE (IF words[1] = w THEN 1 ELSE 0) + Count(w, Tail(words))

\* for kw in keywords: keep the first occurrence of each
RECURSIVE Unique(_, _)
Unique(items, seen) ==
    IF items = << >> THEN << >>
    ELSE IF items[1] \in seen THEN Unique(Tail(items), seen)
         ELSE << items[1] >> \o Unique(Tail(items), seen \cup {items[1]})

\* sorted(word_freq.items(), key=lambda x: x[1], reverse=True): the words in
\* the order of their first occurrence, stably sorted by falling count
SortedWords(words) ==
    LET distinct == Unique(words, {})
        n == Len(distinct)
        Before(i, j) ==
            \/ Count(distinct[i], words) > Count(distinct[j], words)
            \/ Count(distinct[i], words) = Count(distinct[j], words) /\ i < j
        Rank(i) == 1 + Cardinality({j \in 1 .. n : Before(j, i)})
    IN  [k \in 1 .. n |-> distinct[CHOOSE i \in 1 .. n : Rank(i) = k]]

Frequent(words, w) == Count(w, words) >= 2

ContentKeywords(content) ==
    LET words == SelectSeq(SelectSeq(content, Longer3), BodyKeyword)
        sorted_words == Slice(SortedWords(words), 10)
        AtLeastTwice(w) == Frequent(words, w)
    IN  SelectSeq(sorted_words, AtLeastTwice)

HeadingKeywords(headings) ==
    Concat([k \in 1 .. Len(headings) |->
               Slice(SelectSeq(SelectSeq(headings[k], Longer3), BodyKeyword), 3)])

HeadingPhrases(headings) ==
    Concat([k \in 1 .. Len(headings) |-> Slice(Phrases(headings[k]), 2)])

\* stop_words is bound only inside "if crawled_data.get('title')": reading
\* it for a word of the headings, the description or the content of a
\* record without title is an unbound local
StopWordsUnbound(data) ==
    /\ data.title = << >>
    /\ \/ SelectSeq(Concat(Slice(data.headings, 5)), Longer3) # << >>
       \/ SelectSeq(data.description, Longer3) # << >>
       \/ SelectSeq(data.content, Longer3) # << >>

ExtractKeywordsFromContent(data, max_keywords) ==
    LET keywords ==
            Singles(Slice(SelectSeq(SelectSeq(data.title, Longer2), TitleKeyword), 5))
            \o Singles(HeadingKeywords(Slice(data.headings, 5)))
            \o Singles(Slice(SelectSeq(SelectSeq(data.description, Longer3), BodyKeyword), 5))
            \o Singles(ContentKeywords(data.content))
            \o Slice(Phrases(data.title), 3)
            \o HeadingPhrases(Slice(data.headings, 3))
    IN  Slice(Unique(keywords, {}), max_keywords)

CallExtractKeywords ==
    /\ fn = "extract_keywords_from_content"
    /\ retval = << >>
    /\ raised = ""
    /\ IF StopWordsUnbound(args.crawled_data)
       THEN /\ raised' = "NameError"
            /\ UNCHANGED retval
       ELSE /\ retval' = << ExtractKeywordsFromContent(args.crawled_data,
                                                       args.max_keywords) >>
            /\ UNCHANGED raised
    /\ UNCHANGED <<fn, args>>
    /\ UNCHANGED <<crawlVars, batchVars, deadlineVars, reportVars, storeVars>>

KeywordRecords ==
    [title : SeqsUpTo(Vocabulary, MaxTitleWords),
     headings : {<< >>, << <<"video", "editor">> >>, << <<"seo", "the">>, <<"ai">> >>},
     description : {<< >>, <<"editor", "with", "video">>},
     content : SeqsUpTo({"the", "video", "editor"}, MaxContentWords)]

InitKeywords ==
    /\ fn = "extract_keywords_from_content"
    /\ args \in [crawled_data : KeywordRecords, max_keywords : 1 .. MaxKeywordsArg]
    /\ retval = << >>
    /\ raised = ""
    /\ CrawlIdle
    /\ BatchIdle
    /\ DeadlineIdle
    /\ ReportIdle
    /\ StoreIdle

NextKeywords == CallExtractKeywords

SpecKeywords == InitKeywords /\ [][NextKeywords]_vars

\* all the words of the record, title first
AllWords(data) ==
    data.title \o Concat(data.headings) \o data.description \o data.content

\* C16: the list has at most max_keywords entries, no duplicate and no stop
\* word; every entry is a single word of at least 4 characters; the entries
\* are in the order of falling frequency in the record.
C16_FrequencyOrderedWords ==
    Returned =>
        LET kws == retval[1]
            all == AllWords(args.crawled_data)
        IN  /\ Len(kws) <= args.max_keywords
            /\ \A i, j \in DOMAIN kws : kws[i] = kws[j] => i = j
            /\ \A i \in DOMAIN kws :
                  /\ Len(kws[i]) = 1
                  /\ kws[i][1] \notin stop_words
                  /\ WordLen(kws[i][1]) >= 4
            /\ \A i, j \in DOMAIN kws :
                  i < j => Count(kws[i][1], all) >= Count(kws[j][1], all)

\* C27: extract_keywords_from_content does not raise, whatever the record,
\* also a record whose title is empty while its headings, description or
\* content are not.
C27_NeverRaises ==
    fn = "extract_keywords_from_content" => raised = ""


(***************************************************************************)
(* Keyword gaps: the call in generate_seo_report (seo_helper.py 599-604)   *)
(* and compute_keyword_gaps, which seo_helper imports from web_crawler     *)
(* (seo_helper.py 23-31) and whose body is not part of this source tree:   *)
(* it is written down here from its specification.                         *)
(*                                                                         *)
(* Keywords are numbered; competitor_keywords_map is a dict, that is the   *)
(* sequence of its values in insertion order.                              *)
(***************************************************************************)
MaxCompetitors == 2

GapItemsCap == 25

UsedBy(kw, keywords) == \E k \in DOMAIN keywords : keywords[k] = kw

\* number of competitors whose list holds kw
CompetitorsUsing(kw, competitor_keywords_map) ==
    Cardinality({c \in DOMAIN competitor_keywords_map :
                    UsedBy(kw, competitor_keywords_map[c])})

\* keywords of competitors that the site does not have, each with the
\* number of competitors using it, by falling count (first seen first among
\* equals), cut to max_items
compute_keyword_gaps(site_keywords, competitor_keywords_map, max_items) ==
    LET seen == Unique(Concat(competitor_keywords_map), {})
        Gap(kw) == ~UsedBy(kw, site_keywords)
        gaps == SelectSeq(seen, Gap)
        n == Len(gaps)
        Uses(i) == CompetitorsUsing(gaps[i], competitor_keywords_map)
        Before(i, j) == Uses(i) > Uses(j) \/ (Uses(i) = Uses(j) /\ i < j)
        Rank(i) == 1 + Cardinality({j \in 1 .. n : Before(j, i)})
        sorted == [k \in 1 .. n |->
                      LET i == CHOOSE i \in 1 .. n : Rank(i) = k
                      IN  [keyword |-> gaps[i], count |-> Uses(i)]]
    IN  Slice(sorted, max_items)

\* site_keywords_for_gap, competitor_map and keyword_gaps of
\* generate_seo_report
SeoKeywordGapsIgnoringSite(a) ==
    LET competitor_map ==
            IF IsNone(a.competitor_keywords_data) THEN << >>
            ELSE a.competitor_keywords_data.competitor_keywords
    IN  IF competitor_map # << >>
        THEN compute_keyword_gaps(<< >>, competitor_map, GapItemsCap)
        ELSE << >>
SeoKeywordGaps(a) ==
    LET site_keywords_for_gap ==
            IF a.crawled THEN a.extracted_keywords ELSE << >>
        competitor_map ==
            IF IsNone(a.competitor_keywords_data) THEN << >>
            ELSE a.competitor_keywords_data.competitor_keywords
    IN  IF competitor_map # << >>
        THEN compute_keyword_gaps(site_keywords_for_gap, competitor_map, GapItemsCap)
        ELSE << >>

CallKeywordGaps ==
    /\ fn = "keyword_gaps"
    /\ retval = << >>
    /\ retval' = << SeoKeywordGaps(args) >>
    /\ UNCHANGED <<fn, args, raised>>
    /\ UNCHANGED <<crawlVars, batchVars, deadlineVars, reportVars, storeVars>>

\* keyword lists a page can give: none, a few, one keyword twice, and two
\* lists longer than the cap
KeywordLists ==
    { << >>, <<1, 2>>, <<2, 3, 2>>, <<4, 1, 3>>,
      [k \in 1 .. 27 |-> k], [k \in 1 .. 27 |-> 30 - k] }

GapInputs ==
    [crawled : BOOLEAN,
     extracted_keywords : {<< >>, <<1>>, <<2, 29>>},
     competitor_keywords_data :
        {NoData} \cup [kind : {"dict"},
                       competitor_keywords : SeqsUpTo(KeywordLists, MaxCompetitors)]]

InitGaps ==
    /\ fn = "keyword_gaps"
    /\ args \in GapInputs
    /\ retval = << >>
    /\ raised = ""
    /\ CrawlIdle
    /\ BatchIdle
    /\ DeadlineIdle
    /\ ReportIdle
    /\ StoreIdle

NextGaps == CallKeywordGaps

SpecGaps == InitGaps /\ [][NextGaps]_vars

\* claim-side reading of the inputs of the call
GapSiteKeywords ==
    IF args.crawled
    THEN {args.extracted_keywords[k] : k \in DOMAIN args.extracted_keywords}
    ELSE {}
GapCompetitorLists ==
    IF args.competitor_keywords_data.kind = "None" THEN << >>
    ELSE args.competitor_keywords_data.competitor_keywords
GapUsers(kw) ==
    {c \in DOMAIN GapCompetitorLists :
        \E k \in DOMAIN GapCompetitorLists[c] : GapCompetitorLists[c][k] = kw}
GapKeywords ==
    {kw \in 1 .. 30 : GapUsers(kw) # {} /\ kw \notin GapSiteKeywords}

\* C17: the result holds exactly the keywords that some competitor uses and
\* the site does not, each once and with the number of competitors using
\* it, by falling count, cut to max_items (the entries left out have no
\* higher count than those kept); no keyword of the site is in it.
C17_KeywordGaps ==
    Returned =>
        LET r == retval[1]
        IN  /\ Len(r) = Min(Cardinality(GapKeywords), 25)
            /\ \A i \in DOMAIN r :
                  /\ r[i].keyword \in GapKeywords
                  /\ r[i].keyword \notin GapSiteKeywords
                  /\ r[i].count = Cardinality(GapUsers(r[i].keyword))
            /\ \A i, j \in DOMAIN r :
                  /\ r[i].keyword = r[j].keyword => i = j
                  /\ i < j => r[i].count >= r[j].count
            /\ \A kw \in GapKeywords :
                  (\A i \in DOMAIN r : r[i].keyword # kw) =>
                      \A i \in DOMAIN r : r[i].count >= Cardinality(GapUsers(kw))

C17_Witness ==
    /\ Returned
    /\ Cardinality(GapKeywords) > 25
    /\ GapSiteKeywords # {}
    /\ \E kw \in GapSiteKeywords : GapUsers(kw) # {}
    /\ \E i, j \in DOMAIN retval[1] : retval[1][i].count > retval[1][j].count


(***************************************************************************)
(* generate_analytics_report (analytics_helper.py 155-651)                 *)
(*                                                                         *)
(* rin holds the arguments that steer the control flow and, as for the SEO *)
(* report, what every awaited collaborator does.  A returned value is      *)
(* [kind |-> "dict", keys |-> its keys, error |-> its error type or ""]    *)
(* or [kind |-> "str"].                                                    *)
(***************************************************************************)
AnalyticsStages ==
    <<"discover", "crawl", "traffic", "competitor_traffic", "brand",
      "competitor_brand", "competitor_crawl", "industry">>

AnalyticsTimedStages == {"brand", "competitor_brand"}

AnalyticsStageOutcomes(stage) ==
    IF stage \in AnalyticsTimedStages THEN {"ok", "raises", "timeout"}
    ELSE IF stage = "crawl" THEN {"ok", "none", "raises"}
         ELSE {"ok", "raises"}

\* the report call: the API key is missing ("no_key": get_openai_client
\* raises ValueError), the completion raises, its content is not JSON twice
\* ("none"), or it is a report
LlmOutcomes == {"ok", "none", "raises", "no_key"}

AnalyticsInputs ==
    { f \in [website_url : {"", "acme.com"},
             competitor_urls : {0, 3},
             include_competitor_comparison : BOOLEAN,
             include_traffic_analysis : BOOLEAN,
             discover : AnalyticsStageOutcomes("discover"),
             crawl : AnalyticsStageOutcomes("crawl"),
             traffic : AnalyticsStageOutcomes("traffic"),
             competitor_traffic : AnalyticsStageOutcomes("competitor_traffic"),
             brand : AnalyticsStageOutcomes("brand"),
             competitor_brand : AnalyticsStageOutcomes("competitor_brand"),
             competitor_crawl : AnalyticsStageOutcomes("competitor_crawl"),
             industry : AnalyticsStageOutcomes("industry"),
             llm : LlmOutcomes] :
        \* a collaborator that is never awaited has nothing to do
        /\ f.website_url = "" =>
                \A k \in DOMAIN AnalyticsStages : f[AnalyticsStages[k]] = "ok"
        /\ ~f.include_traffic_analysis =>
                f.traffic = "ok" /\ f.competitor_traffic = "ok"
        /\ ~f.include_competitor_comparison =>
                /\ f.discover = "ok"
                /\ f.competitor_traffic = "ok"
                /\ f.competitor_brand = "ok"
                /\ f.competitor_crawl = "ok" }

AnalyticsLocals ==
    [normalized_competitor_urls |-> 0,
     website_data |-> "None",
     traffic_data_text |-> "",
     competitor_traffic_data_text |-> "",
     brand_visibility_evidence |-> "empty",
     competitor_brand_evidence |-> "empty",
     competitor_data_list |-> "empty",
     industry_context |-> "",
     evidence_summary |-> "unset"]

\* _normalize_url: "" stays "", anything else gets a scheme
NormalizeUrl(u) == IF u = "" THEN "" ELSE "https://" \o u

AnalyticsDict(error) ==
    [kind |-> "dict",
     keys |-> {"report", "brand_visibility_evidence",
               "competitor_brand_visibility_evidence"}
              \cup (IF error = "" THEN {} ELSE {"error"}),
     error |-> error]

\* the condition each stage stands under
AnalyticsStageRuns(stage, in, loc) ==
    CASE stage = "discover" ->
            in.include_competitor_comparison /\ loc.normalized_competitor_urls < 3
      [] stage = "traffic" -> in.include_traffic_analysis
      [] stage = "competitor_traffic" ->
            /\ loc.normalized_competitor_urls > 0
            /\ in.include_competitor_comparison
            /\ in.include_traffic_analysis
      [] stage \in {"competitor_brand", "competitor_crawl"} ->
            loc.normalized_competitor_urls > 0 /\ in.include_competitor_comparison
      [] OTHER -> TRUE

\* what a stage that went through leaves in the locals
AnalyticsStageEffect(stage, outcome, loc) ==
    CASE stage = "discover" ->
            [loc EXCEPT !.normalized_competitor_urls =
                IF outcome = "ok" THEN Min(@ + 3, 5) ELSE @]
      [] stage = "crawl" ->
            [loc EXCEPT !.website_data = IF outcome = "ok" THEN "dict" ELSE "None"]
      [] stage = "traffic" ->
            [loc EXCEPT !.traffic_data_text = IF outcome = "ok" THEN "text" ELSE ""]
      [] stage = "competitor_traffic" ->
            [loc EXCEPT !.competitor_traffic_data_text =
                IF outcome = "ok" THEN "text" ELSE ""]
      [] stage = "brand" ->
            [loc EXCEPT !.brand_visibility_evidence =
                IF outcome = "ok" THEN "items" ELSE "empty"]
      [] stage = "competitor_brand" ->
            [loc EXCEPT !.competitor_brand_evidence =
                IF outcome = "ok" THEN "items" ELSE "empty"]
      [] stage = "competitor_crawl" ->
            [loc EXCEPT !.competitor_data_list =
                IF outcome = "ok" THEN "data" ELSE "empty"]
      [] stage = "industry" ->
            [loc EXCEPT !.industry_context = IF outcome = "ok" THEN "text" ELSE ""]

\* the timed stages catch asyncio.TimeoutError right at the wait_for and go
\* on with None / []; every stage has an except Exception around it
AnalyticsRaisedIn(stage, outcome) ==
    IF outcome = "raises" THEN "Exception" ELSE ""

AnalyticsStageAfter(k) ==
    IF k < Len(AnalyticsStages) THEN AnalyticsStages[k + 1] ELSE "evidence"

AnalyticsValidate ==
    /\ rpc = "validate"
    /\ IF NormalizeUrl(rin.website_url) = ""
       THEN /\ rpc' = "returned"
            /\ rret' = << AnalyticsDict("validation_error") >>
            /\ UNCHANGED rloc
       ELSE /\ rpc' = AnalyticsStages[1]
            /\ rloc' = [rloc EXCEPT !.normalized_competitor_urls = rin.competitor_urls]
            /\ UNCHANGED rret
    /\ UNCHANGED rin
    /\ UNCHANGED <<crawlVars, batchVars, deadlineVars, pureVars, storeVars>>

AnalyticsStage(k) ==
    LET stage == AnalyticsStages[k]
        outcome == rin[stage]
        exc == AnalyticsRaisedIn(stage, outcome)
    IN  /\ rpc = stage
        /\ IF ~AnalyticsStageRuns(stage, rin, rloc)
           THEN /\ rpc' = AnalyticsStageAfter(k)
                /\ UNCHANGED rloc
           ELSE IF exc # "" /\ ~Caught(stage, exc)
           THEN /\ rpc' = "aborted"
                /\ UNCHANGED rloc
           ELSE /\ rpc' = AnalyticsStageAfter(k)
                /\ rloc' = AnalyticsStageEffect(stage, outcome, rloc)
        /\ UNCHANGED <<rin, rret>>
        /\ UNCHANGED <<crawlVars, batchVars, deadlineVars, pureVars, storeVars>>

AnalyticsBuildEvidence ==
    /\ rpc = "evidence"
    /\ rloc' = [rloc EXCEPT !.evidence_summary = "built"]
    /\ rpc' = "llm"
    /\ UNCHANGED <<rin, rret>>
    /\ UNCHANGED <<crawlVars, batchVars, deadlineVars, pureVars, storeVars>>

\* the try around get_openai_client and the completions: except ValueError
\* and except Exception both return a dict
AnalyticsFailureText(outcome) == [kind |-> "str"]
AnalyticsFailure(outcome) ==
    AnalyticsDict(IF outcome = "no_key" THEN "api_key_error" ELSE "Exception")

AnalyticsGenerate ==
    /\ rpc = "llm"
    /\ rpc' = "returned"
    /\ rret' = << IF rin.llm \in {"ok", "none"} THEN AnalyticsDict("")
                  ELSE AnalyticsFailure(rin.llm) >>
    /\ UNCHANGED <<rin, rloc>>
    /\ UNCHANGED <<crawlVars, batchVars, deadlineVars, pureVars, storeVars>>

InitAnalytics ==
    /\ rpc = "validate"
    /\ rin \in AnalyticsInputs
    /\ rloc = AnalyticsLocals
    /\ rret = << >>
    /\ CrawlIdle
    /\ BatchIdle
    /\ DeadlineIdle
    /\ PureIdle
    /\ StoreIdle

NextAnalytics ==
    \/ AnalyticsValidate
    \/ \E k \in DOMAIN AnalyticsStages : AnalyticsStage(k)
    \/ AnalyticsBuildEvidence
    \/ AnalyticsGenerate

SpecAnalytics ==
    InitAnalytics /\ [][NextAnalytics]_vars /\ WF_vars(NextAnalytics)

\* C19: generate_analytics_report returns a dict with a report key on every
\* path and never raises or returns a plain string, whatever fails:
\* validation, discovery, crawl, brand visibility, API key, the LLM call.
C19_AlwaysADict ==
    /\ [](/\ rpc # "aborted"
          /\ rret # << >> =>
                /\ rret[1].kind = "dict"
                /\ "report" \in rret[1].keys)
    /\ <>(rpc = "returned")

C19_Witness ==
    /\ rpc = "returned"
    /\ rin.website_url # ""
    /\ rin.discover = "raises"
    /\ rin.crawl = "raises"
    /\ rin.brand = "timeout"
    /\ rin.llm = "no_key"
    /\ rret[1].error = "api_key_error"


(***************************************************************************)
(* search_google_competitors (web_crawler.py 344-421) and                  *)
(* find_competitors_by_website (876-984)                                   *)
(*                                                                         *)
(* A URL is [netloc, path]; as a string it is the sequence of its pieces.  *)
(***************************************************************************)
MaxSearchLinks == 4
MaxResultsArg == 2

UrlText(url) == <<"https://">> \o url.netloc \o <<url.path>>

\* the entries of skip_domains that a host of the model can carry
skip_domains == { <<"wikipedia.org">> }

\* any(skip in actual_url.lower() for skip in skip_domains)
SkippedNever(url) == FALSE
Skipped(url) == \E skip \in skip_domains : Infix(skip, UrlText(url))

SearchLinks ==
    [href : {"uddg"}, netloc : {Apple, WwwApple, PineApple, Pear, Wikipedia},
     path : {"/"}]
    \cup { [href |-> "uddg",  netloc |-> Pear, path |-> "/pricing"],
           [href |-> "http",  netloc |-> Pear, path |-> "/"],
           [href |-> "other", netloc |-> Pear, path |-> "/"] }

ActualUrl(link) == [netloc |-> link.netloc, path |-> link.path]

\* target_domain not in result_domain and result_domain not in target_domain
NotTheTarget(target_domain, result_domain) ==
    ~Infix(target_domain, result_domain) /\ ~Infix(result_domain, target_domain)

RECURSIVE Collect(_, _, _, _, _, _)
\* the for loop over the links from k on: found_urls grows by every
\* link that has a URL, passes the filters and is not yet in the list; the
\* loop breaks once max_results are there
Collect(links, k, found_urls, max_results, exclude_target, target_domain) ==
    IF k > Len(links) THEN found_urls
    ELSE LET link == links[k]
             actual_url == ActualUrl(link)
             take ==
                /\ HasActualUrl(link)
                /\ exclude_target =>
                      NotTheTarget(target_domain, DomainOf(actual_url.netloc))
                /\ ~Skipped(actual_url)
                /\ ~UsedBy(actual_url, found_urls)
             grown == IF take THEN Append(found_urls, actual_url)
                      ELSE found_urls
         IN  IF take /\ Len(grown) >= max_results THEN grown
             ELSE Collect(links, k + 1, grown, max_results,
                          exclude_target, target_domain)

SearchGoogleCompetitors(a) ==
    IF a.status # 200 THEN << >>
    ELSE Slice(Collect(Slice(a.result_links, a.max_results * 3), 1, << >>,
                       a.max_results, FALSE, << >>),
               a.max_results)

FindCompetitorsByWebsite(a) ==
    IF ~a.crawled \/ a.status # 200 THEN << >>
    ELSE Slice(Collect(Slice(a.result_links, a.max_results * 3), 1, << >>,
                       a.max_results, TRUE, DomainOf(a.website_netloc)),
               a.max_results)

CallSearchGoogleCompetitors ==
    /\ fn = "search_google_competitors"
    /\ retval = << >>
    /\ retval' = << SearchGoogleCompetitors(args) >>
    /\ UNCHANGED <<fn, args, raised>>
    /\ UNCHANGED <<crawlVars, batchVars, deadlineVars, reportVars, storeVars>>

CallFindCompetitorsByWebsite ==
    /\ fn = "find_competitors_by_website"
    /\ retval = << >>
    /\ retval' = << FindCompetitorsByWebsite(args) >>
    /\ UNCHANGED <<fn, args, raised>>
    /\ UNCHANGED <<crawlVars, batchVars, deadlineVars, reportVars, storeVars>>

CompetitorSearchInputs ==
    { a \in [website_netloc : {Apple, WwwApple},
             crawled : BOOLEAN,
             max_results : 1 .. MaxResultsArg,
             status : {200, 503},
             result_links : SeqsUpTo(SearchLinks, MaxSearchLinks)] :
        \* no page to scrape without a 200, no search without a crawl
        (a.status # 200 \/ ~a.crawled) => a.result_links = << >> }

InitCompetitors ==
    /\ fn \in {"search_google_competitors", "find_competitors_by_website"}
    /\ args \in CompetitorSearchInputs
    /\ fn = "search_google_competitors" =>
          args.website_netloc = Apple /\ args.crawled
    /\ retval = << >>
    /\ raised = ""
    /\ CrawlIdle
    /\ BatchIdle
    /\ DeadlineIdle
    /\ ReportIdle
    /\ StoreIdle

NextCompetitors ==
    \/ CallSearchGoogleCompetitors
    \/ CallFindCompetitorsByWebsite

SpecCompetitors == InitCompetitors /\ [][NextCompetitors]_vars

\* a host under a denylisted domain
DenylistedHost(netloc) == netloc[Len(netloc)] = "wikipedia.org"

\* C20: both functions return at most max_results URLs, no URL twice and
\* no URL of a denylisted domain; find_competitors_by_website returns no
\* URL on the target site's own domain.
C20_CompetitorUrls ==
    Returned =>
        LET urls == retval[1]
        IN  /\ Len(urls) <= args.max_results
            /\ \A i, j \in DOMAIN urls : urls[i] = urls[j] => i = j
            /\ \A i \in DOMAIN urls : ~DenylistedHost(urls[i].netloc)
            /\ fn = "find_competitors_by_website" =>
                  \A i \in DOMAIN urls :
                      SelectSeq(urls[i].netloc, NotWww)
                          # SelectSeq(args.website_netloc, NotWww)

C20_Witness ==
    /\ Returned
    /\ fn = "find_competitors_by_website"
    /\ args.max_results = 2
    /\ Len(args.result_links) = 4
    /\ args.result_links[1].netloc = Wikipedia
    /\ args.result_links[2].netloc = WwwApple
    /\ args.result_links[3] = args.result_links[4]
    /\ Len(retval[1]) = 1

(***************************************************************************)
(* check_rate_limit (utils/auth.py), for the requests of one API key.      *)
(* The boto3 calls of one request are atomic steps of the table; the query *)
(* and the put of one request are two steps, between which the requests    *)
(* served by other workers can run.                                        *)
(***************************************************************************)
RATE_LIMIT_WINDOW == 60
MAX_REQUESTS_PER_WINDOW == 10

MaxRequests == 11       \* most check_rate_limit calls of a run
MaxInFlight == 2        \* most calls between their query and their put
MaxStoreErrors == 1     \* most calls of a run that meet a store error

\* how many requests arrive in each second of a run
BurstSizes == {1, MaxRequests}

\* put_item on a table whose primary key is (api_key, request_time): an item
\* with the same key is replaced
PutItem(table, request_time) == table \cup {request_time}

\* the query with Select='COUNT': the items with request_time > window_start
QueryCount(table, window_start) ==
    Cardinality({t \in table : t > window_start})

RemoveAt(seq, i) == SubSeq(seq, 1, i - 1) \o SubSeq(seq, i + 1, Len(seq))

RateCallsStarted == Len(rate_results) + Len(rcalls)

\* the calls that read the clock in the current second
CallsThisSecond ==
    Cardinality({k \in 1 .. Len(rate_results) : rate_results[k].current_time = now})
        + Cardinality({i \in 1 .. Len(rcalls) : rcalls[i].current_time = now})

\* a further request can arrive now
RequestArrives ==
    /\ RateCallsStarted < MaxRequests
    /\ CallsThisSecond < args.per_second

\* A request reaches check_rate_limit: current_time is read and the query
\* runs; at or over the limit the call returns False.
RateQuery ==
    /\ fn = "check_rate_limit"
    /\ RequestArrives
    /\ Len(rcalls) < MaxInFlight
    /\ LET current_count == QueryCount(rate_table, now - RATE_LIMIT_WINDOW)
       IN  IF current_count >= MAX_REQUESTS_PER_WINDOW
           THEN /\ rate_results' = Append(rate_results,
                        [current_time |-> now, result |-> FALSE, store_error |-> FALSE])
                /\ UNCHANGED rcalls
           ELSE /\ rcalls' = Append(rcalls,
                        [current_time |-> now, current_count |-> current_count])
                /\ UNCHANGED rate_results
    /\ UNCHANGED <<now, rate_table, initial_credits, credits, dcalls>>
    /\ UNCHANGED <<crawlVars, batchVars, deadlineVars, pureVars, reportVars>>

\* The put_item of a request that was under the limit, and "return True".
RatePut(i) ==
    /\ fn = "check_rate_limit"
    /\ i \in 1 .. Len(rcalls)
    /\ rate_table' = PutItem(rate_table, rcalls[i].current_time)
    /\ rate_results' = Append(rate_results,
            [current_time |-> rcalls[i].current_time, result |-> TRUE,
             store_error |-> FALSE])
    /\ rcalls' = RemoveAt(rcalls, i)
    /\ UNCHANGED <<now, initial_credits, credits, dcalls>>
    /\ UNCHANGED <<crawlVars, batchVars, deadlineVars, pureVars, reportVars>>

\* "except Exception": the query of a new request raises and the call
\* returns True (fail open).
RateStoreError ==
    /\ fn = "check_rate_limit"
    /\ RequestArrives
    /\ Cardinality({k \in 1 .. Len(rate_results) : rate_results[k].store_error})
            < MaxStoreErrors
    /\ rate_results' = Append(rate_results,
            [current_time |-> now, result |-> TRUE, store_error |-> TRUE])
    /\ UNCHANGED <<now, rate_table, rcalls, initial_credits, credits, dcalls>>
    /\ UNCHANGED <<crawlVars, batchVars, deadlineVars, pureVars, reportVars>>

\* A second of the clock passes, once the requests of the second have come.
\* A call stays between its query and its put for less than two seconds.
RateTick ==
    /\ fn = "check_rate_limit"
    /\ CallsThisSecond = args.per_second
    /\ \A i \in 1 .. Len(rcalls) : rcalls[i].current_time = now
    /\ now' = now + 1
    /\ UNCHANGED <<rate_table, rate_results, rcalls, initial_credits, credits, dcalls>>
    /\ UNCHANGED <<crawlVars, batchVars, deadlineVars, pureVars, reportVars>>

\* A whole window passes without a request.
RateQuietWindow ==
    /\ fn = "check_rate_limit"
    /\ now < RATE_LIMIT_WINDOW
    /\ rcalls = << >>
    /\ now' = now + RATE_LIMIT_WINDOW
    /\ UNCHANGED <<rate_table, rate_results, rcalls, initial_credits, credits, dcalls>>
    /\ UNCHANGED <<crawlVars, batchVars, deadlineVars, pureVars, reportVars>>

InitRateLimit ==
    /\ fn = "check_rate_limit"
    /\ args \in [per_second : BurstSizes]
    /\ retval = << >>
    /\ raised = ""
    /\ now = 0
    /\ rate_table = {}
    /\ rate_results = << >>
    /\ rcalls = << >>
    /\ initial_credits = 0
    /\ credits = 0
    /\ dcalls = << >>
    /\ CrawlIdle
    /\ BatchIdle
    /\ DeadlineIdle
    /\ ReportIdle

NextRateLimit ==
    \/ RateQuery
    \/ \E i \in 1 .. MaxInFlight : RatePut(i)
    \/ RateStoreError
    \/ RateTick
    \/ RateQuietWindow

SpecRateLimit == InitRateLimit /\ [][NextRateLimit]_vars

\* the calls that returned True with current_time in the window (t - 60, t]
AdmittedInWindow(t) ==
    {k \in 1 .. Len(rate_results) :
        /\ rate_results[k].result
        /\ rate_results[k].current_time > t - 60
        /\ rate_results[k].current_time <= t}

\* C24: as long as no call met a store error, at most 10 calls with a
\* current_time within any 60-second window have returned True.
C24_AtMostTenPerWindow ==
    (\A k \in 1 .. Len(rate_results) : ~rate_results[k].store_error) =>
        \A k \in 1 .. Len(rate_results) :
            Cardinality(AdmittedInWindow(rate_results[k].current_time)) <= 10

(***************************************************************************)
(* APIKeyAuth.deduct_credits (utils/auth.py), for the calls on one API     *)
(* key.  Each update_item is an atomic step of the table; the calls served *)
(* by other workers can run between the two updates of one call.           *)
(***************************************************************************)
MaxDeductCalls == 3     \* most deduct_credits calls of a run
MaxCredits == 2         \* largest initial balance tried
MaxCost == 2            \* largest credits_to_deduct tried

\* "ADD credits :deduct" with :deduct = -credits_to_deduct
Deduct(balance, credits_to_deduct) == balance - credits_to_deduct

\* mutant of Rollback: the rollback update changes nothing
RollbackNothing(balance, credits_to_deduct) == balance

\* "ADD credits :rollback" with :rollback = credits_to_deduct
Rollback(balance, credits_to_deduct) == balance + credits_to_deduct

\* The first update_item of call i, and what follows without a further
\* request to the store: "return new_credits" when the new balance is not
\* negative.
DeductUpdate(i) ==
    /\ fn = "deduct_credits"
    /\ dcalls[i].pc = "start"
    /\ credits' = Deduct(credits, dcalls[i].credits_to_deduct)
    /\ dcalls' = [dcalls EXCEPT ![i] =
            [@ EXCEPT !.new_credits = credits',
                      !.pc = IF credits' < 0 THEN "rollback" ELSE "done",
                      !.result = IF credits' < 0 THEN "" ELSE "returned"]]
    /\ UNCHANGED <<now, rate_table, rate_results, rcalls, initial_credits>>
    /\ UNCHANGED <<crawlVars, batchVars, deadlineVars, pureVars, reportVars>>

\* "if new_credits < 0": the rollback update_item, then HTTPException(402).
DeductRollback(i) ==
    /\ fn = "deduct_credits"
    /\ dcalls[i].pc = "rollback"
    /\ credits' = Rollback(credits, dcalls[i].credits_to_deduct)
    /\ dcalls' = [dcalls EXCEPT ![i] = [@ EXCEPT !.pc = "done", !.result = "402"]]
    /\ UNCHANGED <<now, rate_table, rate_results, rcalls, initial_credits>>
    /\ UNCHANGED <<crawlVars, batchVars, deadlineVars, pureVars, reportVars>>

\* "except Exception": an update_item of call i raises, the first one or the
\* rollback, and the call ends with HTTPException(500).
DeductStoreError(i) ==
    /\ fn = "deduct_credits"
    /\ dcalls[i].pc \in {"start", "rollback"}
    /\ dcalls' = [dcalls EXCEPT ![i] = [@ EXCEPT !.pc = "done", !.result = "500"]]
    /\ UNCHANGED <<now, rate_table, rate_results, rcalls, initial_credits, credits>>
    /\ UNCHANGED <<crawlVars, batchVars, deadlineVars, pureVars, reportVars>>

InitCredits ==
    /\ fn = "deduct_credits"
    /\ args = << >>
    /\ retval = << >>
    /\ raised = ""
    /\ now = 0
    /\ rate_table = {}
    /\ rate_results = << >>
    /\ rcalls = << >>
    /\ initial_credits \in 0 .. MaxCredits
    /\ credits = initial_credits
    /\ \E n \in 1 .. MaxDeductCalls :
          dcalls \in [1 .. n -> [pc : {"start"}, credits_to_deduct : 1 .. MaxCost,
                                 new_credits : {0}, result : {""}]]
    /\ CrawlIdle
    /\ BatchIdle
    /\ DeadlineIdle
    /\ ReportIdle

NextCredits ==
    \/ \E i \in DOMAIN dcalls : DeductUpdate(i)
    \/ \E i \in DOMAIN dcalls : DeductRollback(i)
    \/ \E i \in DOMAIN dcalls : DeductStoreError(i)

SpecCredits == InitCredits /\ [][NextCredits]_vars

\* every call has ended, none of them with a store error
AllDeductionsDone ==
    \A i \in DOMAIN dcalls : dcalls[i].pc = "done" /\ dcalls[i].result # "500"

RECURSIVE CostOfSuccessful(_)
\* the costs of the calls 1 .. k that returned, added up
CostOfSuccessful(k) ==
    IF k = 0 THEN 0
    ELSE CostOfSuccessful(k - 1)
            + (IF dcalls[k].result = "returned" THEN dcalls[k].credits_to_deduct ELSE 0)

\* C25: once every deduct_credits call has ended and none met a store error,
\* the stored balance is the initial balance minus the costs of the calls
\* that returned, and is not negative; and a call that returns, returns the
\* balance its own update left, which is not negative.
C25_BalanceConserved ==
    /\ [](AllDeductionsDone =>
            /\ credits = initial_credits - CostOfSuccessful(Len(dcalls))
            /\ credits >= 0)
    /\ [][\A i \in DOMAIN dcalls :
            (dcalls[i].result = "" /\ dcalls'[i].result = "returned") =>
                /\ dcalls'[i].new_credits = credits'
                /\ credits' = credits - dcalls[i].credits_to_deduct
                /\ credits' >= 0]_vars
    /\ [][\A i \in DOMAIN dcalls :
            (dcalls[i].result = "" /\ dcalls'[i].result = "402") =>
                credits' = credits + dcalls[i].credits_to_deduct]_vars

\* every call has ended, one with 402 and one by returning, and the rejected
\* call made its update before a call that returned made its own
C25_Witness ==
    /\ AllDeductionsDone
    /\ \E i, j \in DOMAIN dcalls :
          /\ dcalls[i].result = "402" /\ dcalls[j].result = "returned"
          /\ dcalls[j].new_credits = 0
    /\ credits = 0 /\ initial_credits = 2

\* C26: a call is rejected with 402 only if its cost exceeds the balance
\* that the deductions that succeed leave.
C26_AffordableNeverRejected ==
    AllDeductionsDone =>
        \A i \in DOMAIN dcalls :
            dcalls[i].result = "402" => dcalls[i].credits_to_deduct > credits

(***************************************************************************)
(* get_brand_visibility_data (utils/brand_visibility_helper.py).  Each     *)
(* source function ends in one of three ways: it returns a dict with       *)
(* available True, it returns one with available False, or it raises.      *)
(***************************************************************************)
\* the tasks list and the analytics_tasks list, in their order
SeoSources ==
    <<"google_news", "google_autocomplete", "google_people_also_ask",
      "google_trends", "github", "reddit", "hackernews", "wikipedia">>
AnalyticsSources == <<"pagespeed_insights", "builtwith">>

Range(seq) == {seq[k] : k \in 1 .. Len(seq)}

\* the sources whose dict has a total_mentions key, and the number of
\* mentions the model lets each of them find
MentionsFound(name) ==
    IF name = "google_news" THEN 1
    ELSE IF name = "github" THEN 2
    ELSE IF name = "reddit" THEN 4
    ELSE IF name = "hackernews" THEN 8
    ELSE 0

UnavailableData == [available |-> FALSE, total_mentions |-> 0]

\* results[k] after the gather, the timeout handler and the isinstance test
SourceData(a, batch, name) ==
    IF a.timeout = batch THEN UnavailableData
    ELSE IF a.raising = name THEN UnavailableData
    ELSE IF a.outcome[name] = "available"
         THEN [available |-> TRUE, total_mentions |-> MentionsFound(name)]
         ELSE UnavailableData

\* the sources whose total_mentions is added to result['total_mentions']
AddsMentions(name) == name \in {"google_news", "github", "reddit", "hackernews"}

\* the sources stored in data_by_source whether available or not
StoredAlways(name) == name \in {"google_trends", "pagespeed_insights", "builtwith"}

\* the sources whose branch sets result['available'] = True
SetsAvailable(name) == name = "google_news"

RECURSIVE SumMentions(_, _)
SumMentions(data, names) ==
    IF names = << >> THEN 0
    ELSE data[names[1]].total_mentions + SumMentions(data, Tail(names))

GetBrandVisibilityData(a) ==
    LET seo == IF a.include_seo_sources THEN SeoSources ELSE << >>
        analytics == IF a.include_analytics_sources /\ a.website_url
                     THEN AnalyticsSources ELSE << >>
        data == [name \in Range(seo) \cup Range(analytics) |->
                    IF name \in Range(seo) THEN SourceData(a, "seo", name)
                    ELSE SourceData(a, "analytics", name)]
        IsAvailable(name) == data[name].available
        sources == SelectSeq(seo, IsAvailable) \o SelectSeq(analytics, IsAvailable)
        stored == {name \in DOMAIN data : data[name].available \/ StoredAlways(name)}
    IN  [sources |-> sources,
         total_mentions |-> SumMentions(data, SelectSeq(sources, AddsMentions)),
         data_by_source |-> [name \in stored |-> data[name]],
         available |-> \E name \in Range(sources) : SetsAvailable(name)]

CallGetBrandVisibilityData ==
    /\ fn = "get_brand_visibility_data"
    /\ retval = << >>
    /\ retval' = << GetBrandVisibilityData(args) >>
    /\ UNCHANGED <<fn, args, raised>>
    /\ UNCHANGED <<crawlVars, batchVars, deadlineVars, reportVars, storeVars>>

BrandInputs ==
    { a \in [include_seo_sources : BOOLEAN,
             include_analytics_sources : BOOLEAN,
             website_url : BOOLEAN,
             outcome : [Range(SeoSources) \cup Range(AnalyticsSources)
                            -> {"available", "unavailable"}],
             raising : {"none"} \cup Range(SeoSources) \cup Range(AnalyticsSources),
             timeout : {"none", "seo", "analytics"}] :
        \* what a batch that is never awaited would do is left out
        /\ ~a.include_seo_sources =>
              /\ \A name \in Range(SeoSources) : a.outcome[name] = "unavailable"
              /\ a.raising \notin Range(SeoSources)
              /\ a.timeout # "seo"
        /\ ~(a.include_analytics_sources /\ a.website_url) =>
              /\ \A name \in Range(AnalyticsSources) : a.outcome[name] = "unavailable"
              /\ a.raising \notin Range(AnalyticsSources)
              /\ a.timeout # "analytics" }

InitBrand ==
    /\ fn = "get_brand_visibility_data"
    /\ args \in BrandInputs
    /\ retval = << >>
    /\ raised = ""
    /\ CrawlIdle
    /\ BatchIdle
    /\ DeadlineIdle
    /\ ReportIdle
    /\ StoreIdle

NextBrand == CallGetBrandVisibilityData

SpecBrand == InitBrand /\ [][NextBrand]_vars

\* C28: in the result, available is true exactly when sources is not empty,
\* every name in sources has an entry in data_by_source whose available flag
\* is true, and total_mentions is the sum of the total_mentions of the
\* entries of the sources listed.
C28_AvailableIffSources ==
    (fn = "get_brand_visibility_data" /\ Returned) =>
        LET result == retval[1]
        IN  /\ result.available <=> (result.sources # << >>)
            /\ \A k \in 1 .. Len(result.sources) :
                  /\ result.sources[k] \in DOMAIN result.data_by_source
                  /\ result.data_by_source[result.sources[k]].available
            /\ result.total_mentions = SumMentions(result.data_by_source, result.sources)

(***************************************************************************)
(* analyze_keyword_rankings: which keywords are sent to                    *)
(* check_keyword_ranking.  A keyword is a sequence of words, as in         *)
(* extract_keywords_from_content; target_keywords is the sequence of the   *)
(* pieces between its commas, << >> being a blank piece.                   *)
(***************************************************************************)
MaxTargetPieces == 2    \* most comma-separated pieces of target_keywords

\* "[kw.strip() for kw in target_keywords.split(',') if kw.strip()]"
NotBlank(piece) == piece # << >>
ParseTargetKeywords(pieces) == SelectSeq(pieces, NotBlank)

\* list(set(items)): the members, each once, in an order that the string
\* hashes of the process decide
SetOrders(items) ==
    LET members == Range(items)
        n == Cardinality(members)
    IN  {order \in [1 .. n -> members] :
            \A i, j \in 1 .. n : order[i] = order[j] => i = j}

\* the crawl record is None or empty
NoCrawlRecord == [title |-> << >>, headings |-> << >>, description |-> << >>,
                  content |-> << >>]

\* One call: the extraction, the parse of target_keywords, the choice of the
\* keywords to check, the checks, and the dict returned.
CallAnalyzeKeywordRankings ==
    /\ fn = "analyze_keyword_rankings"
    /\ retval = << >>
    /\ raised = ""
    /\ IF StopWordsUnbound(args.crawled_data)
       THEN /\ raised' = "NameError"
            /\ UNCHANGED retval
       ELSE LET extracted_keywords ==
                    ExtractKeywordsFromContent(args.crawled_data, args.max_keywords)
                target_keyword_list == ParseTargetKeywords(args.target_keywords)
            IN  \E order \in SetOrders(extracted_keywords \o target_keyword_list) :
                   LET all_keywords == Slice(order, args.max_keywords)
                   IN  /\ retval' = << [extracted_keywords |-> extracted_keywords,
                                        target_keywords |-> target_keyword_list,
                                        checked |-> all_keywords,
                                        total_checked |-> IF args.checks_raise THEN 0
                                                          ELSE Len(all_keywords)] >>
                       /\ UNCHANGED raised
    /\ UNCHANGED <<fn, args>>
    /\ UNCHANGED <<crawlVars, batchVars, deadlineVars, reportVars, storeVars>>

RankingRecords ==
    { NoCrawlRecord,
      [title |-> <<"seo", "video">>, headings |-> << >>, description |-> << >>,
       content |-> << >>],
      [title |-> <<"ai", "editor">>, headings |-> << <<"video", "editor">> >>,
       description |-> << >>, content |-> <<"video", "video">>],
      [title |-> << >>, headings |-> << <<"video", "editor">> >>,
       description |-> << >>, content |-> << >>] }

TargetPieces == { << >>, <<"seo">>, <<"crm">>, <<"video", "editor">> }

InitRankingAnalysis ==
    /\ fn = "analyze_keyword_rankings"
    /\ args \in [crawled_data : RankingRecords,
                 target_keywords : SeqsUpTo(TargetPieces, MaxTargetPieces),
                 max_keywords : 1 .. MaxKeywordsArg,
                 checks_raise : BOOLEAN]
    /\ retval = << >>
    /\ raised = ""
    /\ CrawlIdle
    /\ BatchIdle
    /\ DeadlineIdle
    /\ ReportIdle
    /\ StoreIdle

NextRankingAnalysis == CallAnalyzeKeywordRankings

SpecRankingAnalysis == InitRankingAnalysis /\ [][NextRankingAnalysis]_vars

\* the target keywords the user supplied, blank pieces left out
SuppliedTargets == SelectSeq(args.target_keywords, LAMBDA piece : piece # << >>)

\* C29: each of the first max_keywords target keywords is among the keywords
\* sent to check_keyword_ranking, whatever was extracted from the page.
C29_TargetKeywordsChecked ==
    (fn = "analyze_keyword_rankings" /\ Returned) =>
        \A k \in 1 .. Len(SuppliedTargets) :
            k <= args.max_keywords =>
                \E c \in 1 .. Len(retval[1].checked) :
                    retval[1].checked[c] = SuppliedTargets[k]

(***************************************************************************)
(* generate_video (routes/video_generation.py): the handler up to the      *)
(* point where it would return the StreamingResponse around stream().      *)
(* rin is the environment and the request; rret is what the handler        *)
(* returned or raised; rloc.events are the events the stream has emitted.  *)
(***************************************************************************)
VideoRequests ==
    [model : {"sora-2", "sora-2-pro"},
     seconds : {4, 8, 12},
     size : {"720x1280", "1280x720", "1024x1792", "1792x1024"}]

\* the names bound where the logger.info line of the handler runs: the
\* parameter, the local assigned before it, and the module's globals
NamesInScope == {"request", "api_key", "os", "logger", "router", "json",
                 "HTTPException", "StreamingResponse"}

\* the names the f-string of the logger.info line reads
NamesLogged == {"logger", "user_info"}

\* The handler body: the two configuration checks and the log line between
\* them; "return StreamingResponse(stream(), ...)" is reached only past them.
VideoHandler ==
    /\ rpc = "handler"
    /\ IF ~rin.OPENAI_API_KEY
       THEN rret' = << "HTTPException 500" >> /\ rpc' = "raised"
       ELSE IF ~(NamesLogged \subseteq NamesInScope)
       THEN rret' = << "NameError" >> /\ rpc' = "raised"
       ELSE IF ~rin.AWS_BUCKET_NAME
       THEN rret' = << "HTTPException 500" >> /\ rpc' = "raised"
       ELSE rret' = << "StreamingResponse" >> /\ rpc' = "streaming"
    /\ UNCHANGED <<rin, rloc>>
    /\ UNCHANGED <<crawlVars, batchVars, deadlineVars, pureVars, storeVars>>

InitVideo ==
    /\ rpc = "handler"
    /\ rin \in [OPENAI_API_KEY : BOOLEAN, AWS_BUCKET_NAME : BOOLEAN,
                request : VideoRequests]
    /\ rloc = [events |-> << >>]
    /\ rret = << >>
    /\ CrawlIdle
    /\ BatchIdle
    /\ DeadlineIdle
    /\ PureIdle
    /\ StoreIdle

NextVideo == VideoHandler

SpecVideo == InitVideo /\ [][NextVideo]_vars

\* C30: for a request with OPENAI_API_KEY and AWS_BUCKET_NAME configured the
\* handler gives an event stream, and the first event of the stream is a
\* queued event.
C30_StreamStartsQueued ==
    (rin.OPENAI_API_KEY /\ rin.AWS_BUCKET_NAME /\ rpc # "handler") =>
        /\ rret = << "StreamingResponse" >>
        /\ (rloc.events # << >> => rloc.events[1] = "queued")

====
